---- MODULE Spec2Model ----
(***************************************************************************)
(* A model of mcp-cli: the expansion of environment references, the        *)
(* profile filter, the loading of the environment, the translation of a    *)
(* compose service into an MCP server record, the comparison of a service  *)
(* with a deployed record, and the set / clear / status commands.          *)
(*                                                                         *)
(* Strings are finite sequences of symbols.  A symbol is one character, or *)
(* a literal the code only ever matches whole ("https://", "mcp.header.",  *)
(* "default", "Bearer ", a program name).  The string operations of the Go *)
(* library (ReplaceAll, HasPrefix, Fields, Split, TrimSpace, ...) are      *)
(* computed on these sequences as the library computes them on bytes.      *)
(*                                                                         *)
(* Go iterates a map in an order that differs from one range loop to the   *)
(* next.  An operator that ranges over a map takes the order of that loop  *)
(* as a parameter, and the actions choose it with \E.                      *)
(***************************************************************************)
EXTENDS Integers, Sequences, FiniteSets, TLC

VARIABLES
    pc,          \* the position of the operation under way
    envVars,     \* the environment map the operation works with
    input,       \* expandEnvVars: the string to expand
    expanded,    \* expandEnvVars: the string returned
    config,      \* filterServers: the compose document, service name -> Service
    profile,     \* filterServers: the profile asked for ("" for none)
    all,         \* filterServers: the all flag
    filtered,    \* filterServers: the map returned
    environ,     \* loadEnvVars: os.Environ(), a sequence of KEY=VALUE strings
    dotenv,      \* loadEnvVars: the .env file next to the compose file
    service,       \* translation and comparison: the compose service
    containerTool, \* the container tool of the CLI config file
    record,        \* the outcome of convertToMCPConfig for the service
    record2,       \* the outcome of a second run of convertToMCPConfig
    deployedServer, \* compareServerConfig: the record read from a tool's file
    compared,      \* the outcome of compareServerConfig against record
    configFile,    \* set and clear: the --config flag ("" when not given)
    toolShortcut,  \* set and clear: the --tool flag ("" when not given)
    cliConfigTool, \* set and clear: the default tool path of the CLI config file ("" for none)
    tokenRequests, \* set: the calls of acquireAccessToken, in order, with the service's name
    invoked,       \* set and clear: the command that runs ("" before any)
    outputPath,    \* set and clear: the path getOutputPath returned
    servers,       \* set: the services still to be converted
    mcpServers,    \* set and clear: the document being built, name -> MCPServer
    targetFile,    \* the file at the output path
    fileBefore,    \* the file at the output path when the command started
    failed,        \* set: the validation or the conversion of a service failed
    toolFiles,     \* status: the config file of every tool
    toolConfigs,   \* status: the map returned by getToolConfigs
    statuses,      \* status: the map returned by getServerStatus
    failure,       \* set and clear: why the command exited ("" when it has not)
    response,      \* token acquisition: the answer of the token endpoint
    result         \* auth functions: the value the function returned

varsExpand == <<input, expanded>>

varsFilter == <<config, profile, all, filtered>>

varsLoad == <<environ, dotenv>>

varsTranslate == <<service, containerTool, record, record2, deployedServer, compared>>

varsSet == <<configFile, toolShortcut, cliConfigTool, tokenRequests, invoked,
             outputPath, servers, mcpServers, targetFile, fileBefore, failed, failure>>

varsStatus == <<toolFiles, toolConfigs, statuses>>

varsAuth == <<response, result>>

\* The variables of set and clear but for the reason of the exit.
varsRun == <<configFile, toolShortcut, cliConfigTool, tokenRequests, invoked,
             outputPath, servers, mcpServers, targetFile, fileBefore, failed>>

vars == <<pc, envVars, input, expanded, config, profile, all, filtered,
          environ, dotenv, service, containerTool, record, record2, deployedServer,
          compared, configFile, toolShortcut, cliConfigTool, tokenRequests, invoked,
          outputPath, servers, mcpServers, targetFile, fileBefore, failed, toolFiles, toolConfigs, statuses,
          failure, response, result>>

(***************************************************************************)
(* Bounds of the model.                                                    *)
(***************************************************************************)
MaxLen == 4          \* length of the strings given to expandEnvVars
MaxServices == 2     \* services of a compose document
MaxLines == 2        \* lines of a .env file

(***************************************************************************)
(* Strings.                                                                *)
(***************************************************************************)
EmptyStr == << >>

EmptyMap == << >>

\* The variables of an operation while another one is under check.
IdleExpand == input = EmptyStr /\ expanded = EmptyStr

IdleFilter == config = EmptyMap /\ profile = EmptyStr /\ all = FALSE /\ filtered = EmptyMap

NoFile == [exists |-> FALSE, readable |-> FALSE, lines |-> << >>]

IdleLoad == environ = << >> /\ dotenv = NoFile

NoService ==
    [Command |-> << >>, Image |-> << >>, Environment |-> << >>,
     Labels |-> << >>, Volumes |-> << >>]

NoRecord == [ok |-> FALSE, class |-> "", server |-> << >>, requests |-> << >>]

NoComparison == [status |-> "", differences |-> << >>, class |-> ""]

IdleTranslate ==
    /\ service = NoService /\ containerTool = <<"docker">>
    /\ record = NoRecord /\ record2 = NoRecord /\ compared = NoComparison
    /\ deployedServer = << >>

\* No file at a path.
Absent == [kind |-> "absent", servers |-> << >>]

IdleSet ==
    /\ configFile = EmptyStr /\ toolShortcut = EmptyStr /\ outputPath = EmptyStr
    /\ cliConfigTool = EmptyStr /\ tokenRequests = << >> /\ invoked = ""
    /\ servers = EmptyMap /\ mcpServers = EmptyMap
    /\ targetFile = Absent /\ fileBefore = Absent /\ failed = FALSE /\ failure = ""

IdleStatus == toolFiles = << >> /\ toolConfigs = << >> /\ statuses = << >>

\* No answer of a token endpoint, and no value returned.
NoResponse == [transport |-> "", status |-> 0, body |-> "", token |-> << >>]

NoResult == [ok |-> FALSE]

IdleAuth == response = NoResponse /\ result = NoResult

\* All strings over the symbols of A with at most n symbols.
StringsUpTo(A, n) == UNION {[1..k -> A] : k \in 0..n}

\* All orders in which a range loop can visit the keys of a map.
RangeOrders(S) ==
    {o \in [1..Cardinality(S) -> S] : \A i, j \in DOMAIN o : i # j => o[i] # o[j]}

HasPrefix(s, p) == Len(s) >= Len(p) /\ SubSeq(s, 1, Len(p)) = p

HasSuffix(s, p) == Len(s) >= Len(p) /\ SubSeq(s, Len(s) - Len(p) + 1, Len(s)) = p

Contains(s, p) ==
    \E i \in 1..(Len(s) - Len(p) + 1) : SubSeq(s, i, i + Len(p) - 1) = p

\* strings.ReplaceAll for a non-empty old: non-overlapping matches, left to right.
RECURSIVE ReplaceAll(_, _, _)
ReplaceAll(s, old, new) ==
    IF Len(s) < Len(old) THEN s
    ELSE IF SubSeq(s, 1, Len(old)) = old
         THEN new \o ReplaceAll(SubSeq(s, Len(old) + 1, Len(s)), old, new)
         ELSE <<Head(s)>> \o ReplaceAll(Tail(s), old, new)

\* The position of the first sep in s, 0 when there is none.
IndexOf(s, sep) ==
    IF \E i \in 1..Len(s) : s[i] = sep
    THEN CHOOSE i \in 1..Len(s) : s[i] = sep /\ \A j \in 1..(i - 1) : s[j] # sep
    ELSE 0

\* strings.Split(s, sep) for a separator of one symbol.
RECURSIVE Split(_, _)
Split(s, sep) ==
    LET i == IndexOf(s, sep)
    IN  IF i = 0 THEN <<s>>
        ELSE <<SubSeq(s, 1, i - 1)>> \o Split(SubSeq(s, i + 1, Len(s)), sep)

RECURSIVE TrimLeft(_)
TrimLeft(s) == IF s # << >> /\ Head(s) = " " THEN TrimLeft(Tail(s)) ELSE s

RECURSIVE TrimRight(_)
TrimRight(s) ==
    IF s # << >> /\ s[Len(s)] = " " THEN TrimRight(SubSeq(s, 1, Len(s) - 1)) ELSE s

\* strings.TrimSpace
TrimSpace(s) == TrimRight(TrimLeft(s))

\* strings.SplitN(s, sep, 2): cut at the first sep, or s alone.
SplitN2(s, sep) ==
    LET i == IndexOf(s, sep)
    IN  IF i = 0 THEN <<s>>
        ELSE <<SubSeq(s, 1, i - 1), SubSeq(s, i + 1, Len(s))>>

\* The map m with key k set to v.
MapSet(m, k, v) == [x \in DOMAIN m \cup {k} |-> IF x = k THEN v ELSE m[x]]

\* strings.Fields: the maximal runs of non-blank symbols of s.
RECURSIVE Fields(_)
Fields(s) ==
    LET t == TrimLeft(s)
        i == IndexOf(t, " ")
    IN  IF t = << >> THEN << >>
        ELSE IF i = 0 THEN <<t>>
        ELSE <<SubSeq(t, 1, i - 1)>> \o Fields(SubSeq(t, i + 1, Len(t)))

\* parts[1:] of the fields of s.
RestFields(s) == IF Fields(s) = << >> THEN << >> ELSE Tail(Fields(s))

\* The map base with the entries of over written over it.
Merge(base, over) ==
    [k \in DOMAIN base \cup DOMAIN over |-> IF k \in DOMAIN over THEN over[k] ELSE base[k]]

\* m[key] of a Go map of strings: "" when the key is absent.
Lookup(m, key) == IF key \in DOMAIN m THEN m[key] ELSE << >>

(***************************************************************************)
(* The compose document.                                                   *)
(***************************************************************************)
\* A service of the compose file; Environment and Labels are maps.
Service(command, image, environment, labels, volumes) ==
    [Command |-> command, Image |-> image, Environment |-> environment,
     Labels |-> labels, Volumes |-> volumes]

LabelProfile == <<"mcp.profile">>

LabelGrantType == <<"mcp.grant-type">>

LabelTokenEndpoint == <<"mcp.token-endpoint">>

LabelClientID == <<"mcp.client-id">>

LabelClientSecret == <<"mcp.client-secret">>

HeaderPrefix == <<"mcp.header.">>

\* A server of the MCP JSON file.  A nil map and an empty map are the same
\* value: the code reads them alike and the JSON omits both.
MCPServer(command, args, env, type, url, headers) ==
    [Command |-> command, Args |-> args, Env |-> env,
     Type |-> type, URL |-> url, Headers |-> headers]

ZeroServer == MCPServer(<< >>, << >>, << >>, << >>, << >>, << >>)

\* The service names a document can hold.
AllNames == <<"a", "b", "c", "d">>

Names == {AllNames[i] : i \in 1..MaxServices}

(***************************************************************************)
(* expandEnvVars.                                                          *)
(***************************************************************************)
Braced(key) == <<"$", "{">> \o key \o <<"}">>

Bare(key) == <<"$">> \o key

\* One range loop of expandEnvVars: the keys are replaced in the order given.
RECURSIVE ReplaceRefs(_, _, _, _)
ReplaceRefs(s, env, order, braced) ==
    IF order = << >> THEN s
    ELSE LET key == Head(order)
             old == IF braced THEN Braced(key) ELSE Bare(key)
         IN  ReplaceRefs(ReplaceAll(s, old, env[key]), env, Tail(order), braced)

\* expandEnvVars(input, envVars), its two range loops visiting the keys in
\* the orders order1 and order2.
expandEnvVars(s, env, order1, order2) ==
    ReplaceRefs(ReplaceRefs(s, env, order1, TRUE), env, order2, FALSE)

\* Every string a call of expandEnvVars(s, env) can return.  (Every pattern
\* replaced holds a $, so a string without one is returned as it is,
\* whatever the orders.)
Expansions(s, env) ==
    IF ~Contains(s, <<"$">>) THEN {s}
    ELSE {expandEnvVars(s, env, o1, o2) : o1 \in RangeOrders(DOMAIN env),
                                          o2 \in RangeOrders(DOMAIN env)}

\* The maps (or sequences) that expanding every value of m can give, each
\* value by a call of expandEnvVars of its own.
ExpandedMaps(m, env) ==
    {f \in [DOMAIN m -> UNION {Expansions(m[k], env) : k \in DOMAIN m}] :
        \A k \in DOMAIN m : f[k] \in Expansions(m[k], env)}

(***************************************************************************)
(* Inputs.                                                                 *)
(***************************************************************************)
\* Characters a variable name is made of.
NameChars == {"A", "B"}

\* Variable names: A, B and AB (A is a proper prefix of AB).
Keys == {<<"A">>, <<"B">>, <<"A", "B">>}

Values == {<<"/">>, <<"$", "B">>}

\* The environment maps: any set of the names, each with one of the values.
Envs == UNION {[D -> Values] : D \in SUBSET Keys}

TemplateChars == {"$", "{", "}", "A", "B", "/"}

Templates == StringsUpTo(TemplateChars, MaxLen)

(***************************************************************************)
(* Specification of expandEnvVars on its own.                              *)
(***************************************************************************)
InitExpand ==
    /\ pc = "start"
    /\ envVars \in Envs
    /\ input \in Templates
    /\ expanded = EmptyStr
    /\ IdleFilter /\ IdleLoad /\ IdleTranslate /\ IdleSet /\ IdleStatus /\ IdleAuth

Expand ==
    /\ pc = "start"
    /\ \E o1 \in RangeOrders(DOMAIN envVars), o2 \in RangeOrders(DOMAIN envVars) :
          expanded' = expandEnvVars(input, envVars, o1, o2)
    /\ pc' = "done"
    /\ UNCHANGED <<envVars, input, varsFilter, varsLoad, varsTranslate, varsSet, varsStatus, varsAuth>>

NextExpand == Expand

SpecExpand == InitExpand /\ [][NextExpand]_vars

(***************************************************************************)
(* filterServers.                                                          *)
(***************************************************************************)
\* One of the comma-separated entries of the label, trimmed, is the token.
HasProfileToken(profileStr, token) ==
    LET profiles == Split(profileStr, ",")
    IN  \E i \in DOMAIN profiles : TrimSpace(profiles[i]) = token

\* isDefault of filterServers: no mcp.profile label, or "default" in it.
isDefault(svc) ==
    IF LabelProfile \notin DOMAIN svc.Labels THEN TRUE
    ELSE HasProfileToken(svc.Labels[LabelProfile], <<"default">>)

\* filterServers as it was before the default servers were added to every
\* profile: a named profile selects the tagged services only.
filterServersTaggedOnly(services, prof, allFlag) ==
    IF allFlag THEN services
    ELSE LET keep == {name \in DOMAIN services :
                        IF prof = EmptyStr THEN isDefault(services[name])
                        ELSE /\ LabelProfile \in DOMAIN services[name].Labels
                             /\ HasProfileToken(services[name].Labels[LabelProfile], prof)}
         IN  [name \in keep |-> services[name]]

\* filterServers without the test of the all flag.
filterServersByProfile(services, prof, allFlag) ==
    LET keep == {name \in DOMAIN services :
                    IF prof = EmptyStr THEN isDefault(services[name])
                    ELSE \/ isDefault(services[name])
                         \/ /\ LabelProfile \in DOMAIN services[name].Labels
                            /\ HasProfileToken(services[name].Labels[LabelProfile], prof)}
    IN  [name \in keep |-> services[name]]

filterServers(services, prof, allFlag) ==
    IF allFlag THEN services
    ELSE LET keep == {name \in DOMAIN services :
                        IF prof = EmptyStr THEN isDefault(services[name])
                        ELSE \/ isDefault(services[name])
                             \/ /\ LabelProfile \in DOMAIN services[name].Labels
                                /\ HasProfileToken(services[name].Labels[LabelProfile], prof)}
         IN  [name \in keep |-> services[name]]

\* The values of the mcp.profile label the documents use.
ProfileLabels ==
    { <<"default">>, <<"prog">>, <<"default", ",", "prog">>,
      <<"prog", ",", " ", "default", " ">>, <<"other", ",", " ", "prog">>,
      <<"default", "prog">>, <<"prog", " ", "default">>, EmptyStr, <<"other">> }

\* The labels of a service: none, or mcp.profile with one of the values.
ProfileLabelMaps == {EmptyMap} \cup {[k \in {LabelProfile} |-> v] : v \in ProfileLabels}

FilterServices ==
    {Service(<<"uvx">>, EmptyStr, EmptyMap, labels, << >>) : labels \in ProfileLabelMaps}

\* The profile argument: none, a tag in use, default, a tag no service has,
\* and a tag with a blank in front.
ProfileArgs == {EmptyStr, <<"prog">>, <<"default">>, <<"nosuch">>, <<" ", "prog">>}

(***************************************************************************)
(* Specification of filterServers on its own.                              *)
(***************************************************************************)
InitFilter ==
    /\ pc = "start"
    /\ envVars = EmptyMap
    /\ config \in UNION {[D -> FilterServices] : D \in SUBSET Names}
    /\ profile \in ProfileArgs
    /\ all \in BOOLEAN
    /\ filtered = EmptyMap
    /\ IdleExpand /\ IdleLoad /\ IdleTranslate /\ IdleSet /\ IdleStatus /\ IdleAuth

Filter ==
    /\ pc = "start"
    /\ filtered' = filterServers(config, profile, all)
    /\ pc' = "done"
    /\ UNCHANGED <<envVars, config, profile, all, varsExpand, varsLoad, varsTranslate,
                   varsSet, varsStatus, varsAuth>>

NextFilter == Filter

SpecFilter == InitFilter /\ [][NextFilter]_vars

(***************************************************************************)
(* C4.  With all = false, filterServers returns exactly the default        *)
(* services for the empty profile, and exactly the default services        *)
(* together with the services tagged with the profile for a profile P; a   *)
(* service is default iff it has no mcp.profile label or the label lists   *)
(* the token default.  So the result for any P holds the result for the    *)
(* empty profile.                                                          *)
(***************************************************************************)
\* The entries of a comma-separated list, read off the text: s[i..j] is an
\* entry iff it holds no comma and is bounded by commas or the ends of s.
ListEntries(s) ==
    LET bounds == {p \in (1..(Len(s) + 1)) \X (0..Len(s)) :
                     /\ p[2] >= p[1] - 1
                     /\ p[1] = 1 \/ s[p[1] - 1] = ","
                     /\ p[2] = Len(s) \/ s[p[2] + 1] = ","
                     /\ \A k \in p[1]..p[2] : s[k] # ","}
    IN  {SubSeq(s, p[1], p[2]) : p \in bounds}

Blank(s) == \A k \in DOMAIN s : s[k] = " "

\* e with the blanks around it removed is t.
TrimsTo(e, t) ==
    /\ t = << >> \/ (Head(t) # " " /\ t[Len(t)] # " ")
    /\ \E i \in 0..Len(e), j \in 0..Len(e) :
          /\ i <= j
          /\ Blank(SubSeq(e, 1, i))
          /\ SubSeq(e, i + 1, j) = t
          /\ Blank(SubSeq(e, j + 1, Len(e)))

ListsToken(svc, t) ==
    /\ LabelProfile \in DOMAIN svc.Labels
    /\ \E e \in ListEntries(svc.Labels[LabelProfile]) : TrimsTo(e, t)

DefaultNames(doc) ==
    {n \in DOMAIN doc : LabelProfile \notin DOMAIN doc[n].Labels
                          \/ ListsToken(doc[n], <<"default">>)}

TaggedNames(doc, t) == {n \in DOMAIN doc : ListsToken(doc[n], t)}

RECURSIVE SystemEnv(_, _)
SystemEnv(entries, env) ==
    IF entries = << >> THEN env
    ELSE LET parts == SplitN2(Head(entries), "=")
         IN  SystemEnv(Tail(entries),
                       IF Len(parts) = 2 THEN MapSet(env, parts[1], parts[2]) ELSE env)

Quoted(value, q) == HasPrefix(value, <<q>>) /\ HasSuffix(value, <<q>>)

\* What one line of the .env file does: nothing ("skip"), define a key
\* ("set"), or stop the program: value[1 : len(value)-1] of a value that is
\* one quote character alone is a slice with bounds out of range ("panic").
ParseLine(text) ==
    LET line == TrimSpace(text)
        parts == SplitN2(line, "=")
        key == TrimSpace(parts[1])
        value == TrimSpace(parts[2])
    IN  IF line = EmptyStr \/ HasPrefix(line, <<"#">>) THEN [kind |-> "skip"]
        ELSE IF Len(parts) # 2 THEN [kind |-> "skip"]
        ELSE IF Quoted(value, "\"") \/ Quoted(value, "'")
             THEN IF Len(value) < 2 THEN [kind |-> "panic"]
                  ELSE [kind |-> "set", key |-> key,
                        value |-> SubSeq(value, 2, Len(value) - 1)]
             ELSE [kind |-> "set", key |-> key, value |-> value]

\* The assignment of a parsed line, made for every key (the file overriding
\* the process environment).
SetFromFileAlways(env, key, value) == MapSet(env, key, value)

\* The assignment of a parsed line: only if the key is not set already.
SetFromFile(env, key, value) ==
    IF key \in DOMAIN env THEN env ELSE MapSet(env, key, value)

\* The scanner loop of loadEnvVars over the lines of the file.
RECURSIVE ScanLines(_, _)
ScanLines(lines, env) ==
    IF lines = << >> THEN [status |-> "done", env |-> env]
    ELSE LET p == ParseLine(Head(lines))
         IN  IF p.kind = "panic" THEN [status |-> "panic", env |-> EmptyMap]
             ELSE IF p.kind = "skip" THEN ScanLines(Tail(lines), env)
             ELSE ScanLines(Tail(lines), SetFromFile(env, p.key, p.value))

loadEnvVars(entries, file) ==
    LET system == SystemEnv(entries, EmptyMap)
    IN  IF ~file.exists THEN [status |-> "done", env |-> system]
        ELSE IF ~file.readable THEN [status |-> "error", env |-> EmptyMap]
        ELSE ScanLines(file.lines, system)

\* The process environments: values of the process are p and q.
Environs ==
    { << >>,
      << <<"A", "=", "p">> >>,
      << <<"B", "=", "q">> >>,
      << <<"A", "=", "p">>, <<"B", "=", "q", "=">> >>,
      << <<"A", "=">> >> }

\* The lines of the .env files: values of the file are f and g.
DotenvLines ==
    { <<"A", "=", "f">>,
      <<"B", "=", "g">>,
      <<" ", "B", " ", "=", " ", "f", " ">>,
      <<"A", "=", "\"", "g", "\"">>,
      <<"B", "=", "'", "f", " ", "'">>,
      <<"A", "=", "\"", "f", "'">>,
      <<"A", "=", "f", "=", "g">>,
      <<"#", "A", "=", "f">>,
      <<" ", "#">>,
      <<"A", "B">>,
      EmptyStr,
      <<"B", "=">>,
      <<"A", "=", "\"">> }

DotenvFiles ==
    {NoFile, [exists |-> TRUE, readable |-> FALSE, lines |-> << >>]} \cup
    {[exists |-> TRUE, readable |-> TRUE, lines |-> l] :
        l \in StringsUpTo(DotenvLines, MaxLines)}

(***************************************************************************)
(* Specification of loadEnvVars on its own.                                *)
(***************************************************************************)
InitLoad ==
    /\ pc = "start"
    /\ envVars = EmptyMap
    /\ environ \in Environs
    /\ dotenv \in DotenvFiles
    /\ IdleExpand /\ IdleFilter /\ IdleTranslate /\ IdleSet /\ IdleStatus /\ IdleAuth

\* loadEnvVars returns the map ("done"), returns an error, or panics.
Load ==
    /\ pc = "start"
    /\ LET r == loadEnvVars(environ, dotenv)
       IN  pc' = r.status /\ envVars' = r.env
    /\ UNCHANGED <<environ, dotenv, varsExpand, varsFilter, varsTranslate, varsSet, varsStatus, varsAuth>>

NextLoad == Load

SpecLoad == InitLoad /\ [][NextLoad]_vars

(***************************************************************************)
(* C8.  In the map loadEnvVars returns, every key of the process           *)
(* environment has its process value; a key of the .env file has its file  *)
(* value only if the process does not define it; a missing .env file is no *)
(* error and gives the process environment alone.                          *)
(***************************************************************************)
\* The process defines key as value: an entry KEY=VALUE cut at its first =.
ProcessDefines(key, value) ==
    \E i \in DOMAIN environ : environ[i] = key \o <<"=">> \o value
                              /\ \A k \in DOMAIN key : key[k] # "="

ProcessKeys ==
    {SubSeq(environ[i], 1, IndexOf(environ[i], "=") - 1) :
        i \in {j \in DOMAIN environ : IndexOf(environ[j], "=") > 0}}

\* The first line of the file that defines key gives it value.
FileDefines(key, value) ==
    \E i \in DOMAIN dotenv.lines :
        /\ ParseLine(dotenv.lines[i]).kind = "set"
        /\ ParseLine(dotenv.lines[i]).key = key
        /\ ParseLine(dotenv.lines[i]).value = value
        /\ \A j \in 1..(i - 1) : ParseLine(dotenv.lines[j]).kind = "set" =>
                                     ParseLine(dotenv.lines[j]).key # key

BareRefAt(s, i, key) ==
    /\ i + Len(key) <= Len(s)
    /\ s[i] = "$"
    /\ SubSeq(s, i + 1, i + Len(key)) = key
    /\ (i + Len(key) = Len(s) \/ s[i + Len(key) + 1] \notin NameChars)

HasBareRef(s, key) == \E i \in 1..Len(s) : BareRefAt(s, i, key)

HasBracedRef(s, key) == Contains(s, Braced(key))

C6_UnknownRefsUntouched ==
    pc = "done" =>
        \A key \in Keys \ DOMAIN envVars :
            /\ HasBracedRef(input, key) => Contains(expanded, Braced(key))
            /\ HasBareRef(input, key) => Contains(expanded, Bare(key))

(***************************************************************************)
(* Remote servers: classification and authentication.                      *)
(***************************************************************************)
IsURL(s) == HasPrefix(s, <<"https://">>) \/ HasPrefix(s, <<"http://">>)

\* IsRemoteServer: the command as written starts with https:// or http://.
IsRemoteServer(svc) == IsURL(svc.Command)

\* IsRemoteServerWithEnvExpansion: the command after expansion starts with
\* https:// or http://; o1 and o2 are the orders of the expansion's loops.
IsRemoteServerWithEnvExpansion(svc, env, o1, o2) ==
    IsURL(expandEnvVars(svc.Command, env, o1, o2))

\* The answers a call of IsRemoteServerWithEnvExpansion can give.
RemoteVerdicts(svc, env) ==
    {IsRemoteServerWithEnvExpansion(svc, env, o1, o2) :
        o1 \in RangeOrders(DOMAIN env), o2 \in RangeOrders(DOMAIN env)}

HeaderLabels(svc) == {l \in DOMAIN svc.Labels : HasPrefix(l, HeaderPrefix)}

\* UsesHeadersAuth: some label starts with mcp.header.
UsesHeadersAuth(svc) == HeaderLabels(svc) # {}

\* ValidateRemoteServerAuth: "ok" or the error it returns.
ValidateRemoteServerAuth(svc) ==
    LET usesHeaders == UsesHeadersAuth(svc)
        hasOAuthLabels == Lookup(svc.Labels, LabelGrantType) # << >>
        required == <<LabelGrantType, LabelTokenEndpoint, LabelClientID, LabelClientSecret>>
        missing == SelectSeq(required, LAMBDA l : l \notin DOMAIN svc.Labels)
    IN  IF ~usesHeaders /\ ~hasOAuthLabels THEN [err |-> "neither", missing |-> << >>]
        ELSE IF usesHeaders /\ hasOAuthLabels THEN [err |-> "both", missing |-> << >>]
        ELSE IF hasOAuthLabels /\ missing # << >> THEN [err |-> "missing", missing |-> missing]
        ELSE IF hasOAuthLabels /\ svc.Labels[LabelGrantType] # <<"client_credentials">>
             THEN [err |-> "grant-type", missing |-> << >>]
        ELSE [err |-> "ok", missing |-> << >>]

\* The test ExtractHeaders makes on an expanded header value.
HeaderUnresolved(v) ==
    Contains(v, <<"$", "{">>) \/ (Contains(v, <<"$">>) /\ ~HasPrefix(v, <<"$">>))

\* The header labels ExtractHeaders expands: a name after the prefix, and
\* not the empty X-Empty placeholder.
EmittedHeaderLabels(svc) ==
    {l \in HeaderLabels(svc) :
        /\ Tail(l) # << >>
        /\ ~(Tail(l) = <<"X-Empty">> /\ svc.Labels[l] = << >>)}

\* ExtractHeaders; values[l] is what expandEnvVars returned for label l.
ExtractHeaders(svc, values) ==
    IF \E l \in EmittedHeaderLabels(svc) : HeaderUnresolved(values[l])
    THEN [ok |-> FALSE, headers |-> << >>]
    ELSE IF HeaderLabels(svc) = {} THEN [ok |-> FALSE, headers |-> << >>]
    ELSE [ok |-> TRUE,
          headers |-> [name \in {Tail(l) : l \in EmittedHeaderLabels(svc)} |->
                          values[HeaderPrefix \o name]]]

\* The outcomes of ExtractHeaders(service, env).
HeaderOutcomes(svc, env) ==
    {ExtractHeaders(svc, values) :
        values \in ExpandedMaps([l \in EmittedHeaderLabels(svc) |-> svc.Labels[l]], env)}

OAuthUnresolved(v) == Contains(v, <<"$", "{">>) \/ Contains(v, <<"$">>)

\* ExtractOAuthConfig; values is what expandEnvVars returned for the labels.
ExtractOAuthConfig(values) ==
    [ok |-> /\ ~OAuthUnresolved(values.ClientID)
            /\ ~OAuthUnresolved(values.ClientSecret)
            /\ ~OAuthUnresolved(values.TokenURL),
     config |-> values]

OAuthOutcomes(svc, env) ==
    {ExtractOAuthConfig([GrantType |-> g, TokenURL |-> u, ClientID |-> i, ClientSecret |-> c]) :
        g \in Expansions(Lookup(svc.Labels, LabelGrantType), env),
        u \in Expansions(Lookup(svc.Labels, LabelTokenEndpoint), env),
        i \in Expansions(Lookup(svc.Labels, LabelClientID), env),
        c \in Expansions(Lookup(svc.Labels, LabelClientSecret), env)}

\* The access tokens a token endpoint hands out.
Tokens == {<<"t1">>, <<"t2">>}

\* The answers to the POST of acquireAccessToken: the transport fails, or
\* a status comes back with a body that is JSON or is not, the JSON
\* holding the access_token given ("" when it is missing or empty).
Responses ==
    [transport : {"ok", "error"},
     status : {199, 200, 204, 299, 300, 401, 403, 404, 500},
     body : {"json", "garbage"},
     token : Tokens \cup {EmptyStr}]

TokenError(err, code) == [ok |-> FALSE, token |-> EmptyStr, err |-> err, code |-> code]

\* The test acquireAccessToken makes on the status after 401 and 403.
StatusRejected(status) == status < 200 \/ status >= 300

\* The mutant accepts an empty access_token.
TokenFromBodyUnchecked(resp) ==
    [ok |-> TRUE, token |-> resp.token, err |-> "", code |-> 0]

\* The end of acquireAccessToken: the access_token of the decoded body.
TokenFromBody(resp) ==
    IF resp.token = EmptyStr THEN TokenError("missing access_token", 0)
    ELSE [ok |-> TRUE, token |-> resp.token, err |-> "", code |-> 0]

\* acquireAccessToken.  http.NewRequest fails on a URL it cannot parse (a
\* blank in the host); client.Do fails on a URL that is not http(s) and on
\* a transport failure or a timeout.
acquireAccessToken(oauth, resp) ==
    IF Contains(oauth.TokenURL, <<" ">>) THEN TokenError("failed to create request", 0)
    ELSE IF ~IsURL(oauth.TokenURL) \/ resp.transport # "ok" THEN TokenError("network error", 0)
    ELSE IF resp.status = 401 THEN TokenError("401 Unauthorized", 0)
    ELSE IF resp.status = 403 THEN TokenError("403 Forbidden", 0)
    ELSE IF StatusRejected(resp.status) THEN TokenError("status", resp.status)
    ELSE IF resp.body # "json" THEN TokenError("failed to parse", 0)
    ELSE TokenFromBody(resp)

\* The outcomes of acquireAccessToken as convertToMCPConfig sees them.
TokenOutcomes(oauth) ==
    {[ok |-> r.ok, token |-> r.token] :
        r \in {acquireAccessToken(oauth, resp) : resp \in Responses}}

(***************************************************************************)
(* convertToMCPConfig: the body of its loop, for one service.  Every call  *)
(* of expandEnvVars and of IsRemoteServerWithEnvExpansion in it is a call  *)
(* of its own, so the operators give the set of the records a run can end  *)
(* with.                                                                   *)
(***************************************************************************)
\* requests: the calls of acquireAccessToken made on the way, TRUE for a
\* call that returned a token.
Converted(class, server) ==
    [ok |-> TRUE, class |-> class, server |-> server, requests |-> << >>]

\* os.Exit(1) in the middle of the conversion.
Exited(class) ==
    [ok |-> FALSE, class |-> class, server |-> ZeroServer, requests |-> << >>]

\* serviceEnvVars: the service's expanded environment over envVars.
ServiceEnvMaps(svc, env) ==
    {Merge(env, e) : e \in ExpandedMaps(svc.Environment, env)}

BearerHeader(token) ==
    [name \in {<<"Authorization">>} |-> <<"Bearer ">> \o token]

\* What the auth branch of a remote server ends with: the headers or a
\* failure, and the calls of acquireAccessToken made.
AuthDone(ok, headers, requests) == [ok |-> ok, headers |-> headers, requests |-> requests]

\* The OAuth branch with a second call of acquireAccessToken after a
\* failed one.
OAuthHeadersWithRetry(oauth) ==
    UNION {IF t.ok THEN {AuthDone(TRUE, BearerHeader(t.token), <<TRUE>>)}
           ELSE {IF u.ok THEN AuthDone(TRUE, BearerHeader(u.token), <<FALSE, TRUE>>)
                 ELSE AuthDone(FALSE, << >>, <<FALSE, FALSE>>) :
                     u \in TokenOutcomes(oauth)} :
              t \in TokenOutcomes(oauth)}

\* The OAuth branch after ExtractOAuthConfig: one call of
\* AcquireAccessTokenWithFeedback, and the exit when it fails.
OAuthHeaders(oauth) ==
    {IF t.ok THEN AuthDone(TRUE, BearerHeader(t.token), <<TRUE>>)
     ELSE AuthDone(FALSE, << >>, <<FALSE>>) :
        t \in TokenOutcomes(oauth)}

\* The headers of a remote server, or the exit on a failure.
RemoteHeaders(svc, senv) ==
    IF UsesHeadersAuth(svc)
    THEN {AuthDone(h.ok, h.headers, << >>) : h \in HeaderOutcomes(svc, senv)}
    ELSE UNION {IF ~o.ok THEN {AuthDone(FALSE, << >>, << >>)}
                ELSE OAuthHeaders(o.config) :
                   o \in OAuthOutcomes(svc, senv)}

RemoteRecords(svc, env) ==
    UNION {{[IF h.ok
             THEN Converted("remote",
                            MCPServer(<< >>, << >>, << >>, <<"http">>, url, h.headers))
             ELSE Exited("remote") EXCEPT !.requests = h.requests] :
                h \in UNION {RemoteHeaders(svc, senv) : senv \in ServiceEnvMaps(svc, env)}} :
              url \in Expansions(svc.Command, env)}

\* The -e pairs, in the order the environment map is ranged over.
RECURSIVE EnvFlags(_, _)
EnvFlags(order, values) ==
    IF order = << >> THEN << >>
    ELSE <<<<"-e">>, Head(order) \o <<"=">> \o values[Head(order)]>>
             \o EnvFlags(Tail(order), values)

\* The -v pairs, in the order of the volumes.
RECURSIVE VolumeFlags(_)
VolumeFlags(volumes) ==
    IF volumes = << >> THEN << >>
    ELSE <<<<"-v">>, Head(volumes)>> \o VolumeFlags(Tail(volumes))

RunPrefix == <<<<"run">>, <<"-i">>, <<"--rm">>>>

\* The container branch with the image put before the volumes.
ContainerRecordsImageFirst(svc, env, tool) ==
    {Converted("container",
               MCPServer(tool,
                         RunPrefix \o EnvFlags(order, values) \o <<image>>
                             \o VolumeFlags(volumes),
                         << >>, << >>, << >>, << >>)) :
        order \in RangeOrders(DOMAIN svc.Environment),
        values \in ExpandedMaps(svc.Environment, env),
        volumes \in ExpandedMaps(svc.Volumes, env),
        image \in Expansions(svc.Image, env)}

ContainerRecords(svc, env, tool) ==
    {Converted("container",
               MCPServer(tool,
                         RunPrefix \o EnvFlags(order, values) \o VolumeFlags(volumes)
                             \o <<image>>,
                         << >>, << >>, << >>, << >>)) :
        order \in RangeOrders(DOMAIN svc.Environment),
        values \in ExpandedMaps(svc.Environment, env),
        volumes \in ExpandedMaps(svc.Volumes, env),
        image \in Expansions(svc.Image, env)}

\* The command branch with the command expanded before it is split.
CommandRecordsExpandFirst(svc, env) ==
    {IF Fields(c) = << >> THEN Converted("command", ZeroServer)
     ELSE Converted("command",
                    MCPServer(Fields(c)[1], Tail(Fields(c)), << >>, << >>, << >>, << >>)) :
        c \in Expansions(svc.Command, env)}

CommandRecords(svc, env) ==
    LET parts == Fields(svc.Command)
    IN  IF parts = << >> THEN {Converted("command", ZeroServer)}
        ELSE {Converted("command",
                        MCPServer(parts[1], args, << >>, << >>, << >>, << >>)) :
                 args \in ExpandedMaps(RestFields(svc.Command), env)}

\* The env field, set when the second call of
\* IsRemoteServerWithEnvExpansion says the service is local.
WithEnv(r, svc, env, remoteAgain) ==
    IF ~r.ok \/ remoteAgain \/ DOMAIN svc.Environment = {} THEN {r}
    ELSE {[r EXCEPT !.server.Env = e] : e \in ExpandedMaps(svc.Environment, env)}

\* The records a run of the loop body can end with for one service.
ConvertOutcomes(svc, env, tool) ==
    UNION {UNION {WithEnv(r, svc, env, remoteAgain) :
                     r \in IF remote THEN RemoteRecords(svc, env)
                           ELSE IF svc.Image # << >> THEN ContainerRecords(svc, env, tool)
                           ELSE CommandRecords(svc, env)} :
              remote \in RemoteVerdicts(svc, env),
              remoteAgain \in RemoteVerdicts(svc, env)}

(***************************************************************************)
(* compareServerConfig.                                                    *)
(***************************************************************************)
\* compareHeaders and compareEnvVars: the same length and the same entries.
compareMaps(expected, actual) ==
    /\ Cardinality(DOMAIN expected) = Cardinality(DOMAIN actual)
    /\ \A key \in DOMAIN expected : key \in DOMAIN actual /\ actual[key] = expected[key]

compareStringSlices(a, b) ==
    Len(a) = Len(b) /\ \A i \in DOMAIN a : a[i] = b[i]

Diff(cond, what) == IF cond THEN <<what>> ELSE << >>

\* The end of a comparison that reports "different" whatever it found.
ComparedAlwaysDifferent(class, differences) ==
    [status |-> "different", differences |-> differences, class |-> class]

Compared(class, differences) ==
    [status |-> IF differences = << >> THEN "configured" ELSE "different",
     differences |-> differences, class |-> class]

\* compareRemoteServers; expected is what ExtractHeaders returned.
compareRemoteServers(svc, deployed, expected) ==
    Compared("remote",
        Diff(deployed.Type # <<"http">>, "type mismatch")
        \o Diff(deployed.URL # svc.Command, "URL mismatch")
        \o (IF UsesHeadersAuth(svc)
            THEN Diff(expected.ok /\ ~compareMaps(expected.headers, deployed.Headers),
                      "headers mismatch")
            ELSE IF DOMAIN deployed.Headers = {} THEN <<"missing OAuth headers">>
            ELSE Diff(~(/\ <<"Authorization">> \in DOMAIN deployed.Headers
                        /\ HasPrefix(deployed.Headers[<<"Authorization">>], <<"Bearer ">>)),
                      "invalid OAuth headers")))

\* The check of the run prefix that lets a short argument list pass.
PrefixDiffsOfLongArgs(args) ==
    IF Len(args) < Len(RunPrefix) THEN << >>
    ELSE Diff(args[1] # RunPrefix[1], "arg mismatch at position 0")
         \o Diff(args[2] # RunPrefix[2], "arg mismatch at position 1")
         \o Diff(args[3] # RunPrefix[3], "arg mismatch at position 2")

\* The differences of the run prefix of a container's arguments.
PrefixDiffs(args) ==
    IF Len(args) < Len(RunPrefix) THEN <<"missing container run arguments">>
    ELSE Diff(args[1] # RunPrefix[1], "arg mismatch at position 0")
         \o Diff(args[2] # RunPrefix[2], "arg mismatch at position 1")
         \o Diff(args[3] # RunPrefix[3], "arg mismatch at position 2")

\* compareLocalServers; expectedEnv, image and expectedArgs are what the
\* calls of expandEnvVars returned.
compareLocalServers(svc, deployed, tool, expectedEnv, image, expectedArgs) ==
    IF svc.Image # << >>
    THEN Compared("container",
            Diff(deployed.Command # tool, "command mismatch")
            \o PrefixDiffs(deployed.Args)
            \o Diff(~compareMaps(expectedEnv, deployed.Env), "environment variables mismatch")
            \o Diff(Len(deployed.Args) > 0 /\ deployed.Args[Len(deployed.Args)] # image,
                    "image mismatch"))
    ELSE LET parts == Fields(svc.Command)
         IN  Compared("command",
                (IF parts = << >> THEN << >>
                 ELSE Diff(deployed.Command # parts[1], "command mismatch")
                      \o Diff(~compareStringSlices(expectedArgs, deployed.Args),
                              "arguments mismatch"))
                \o Diff(~compareMaps(expectedEnv, deployed.Env),
                        "environment variables mismatch"))

\* The results a call of compareServerConfig can give.
CompareOutcomes(svc, deployed, env, tool) ==
    IF deployed.Command = << >> /\ deployed.URL = << >>
    THEN {[status |-> "not-configured", differences |-> << >>, class |-> "none"]}
    ELSE IF IsRemoteServer(svc)
    THEN {compareRemoteServers(svc, deployed, expected) :
             expected \in IF UsesHeadersAuth(svc)
                          THEN UNION {HeaderOutcomes(svc, senv) :
                                         senv \in ServiceEnvMaps(svc, env)}
                          ELSE {[ok |-> FALSE, headers |-> << >>]}}
    ELSE {compareLocalServers(svc, deployed, tool, expectedEnv, image, expectedArgs) :
             expectedEnv \in ExpandedMaps(svc.Environment, env),
             image \in Expansions(svc.Image, env),
             expectedArgs \in ExpandedMaps(RestFields(svc.Command), env)}

(***************************************************************************)
(* Specification of the translation of one service and of its comparison   *)
(* with the record translated.                                             *)
(***************************************************************************)
URL == <<"https://", "/">>

\* The commands: a local command with a reference in an argument, a URL, a
\* reference (braced, bare) that may expand to a URL, a URL with a
\* reference in it, a reference to AB, and no command.
Commands ==
    { <<"uvx", " ", "srv", " ", "$", "A">>,
      URL,
      <<"http://", "/">>,
      <<"$", "{", "A", "}">>,
      <<"https://", "$", "B">>,
      <<"$", "A", "B">>,
      EmptyStr }

Images == {EmptyStr, <<"img", ":", "$", "{", "B", "}">>}

\* The environment of a service: the variable K is the service's own.
Environments ==
    { EmptyMap,
      [k \in {<<"K">>} |-> <<"$", "B">>],
      [k \in {<<"K">>, <<"A">>} |-> IF k = <<"K">> THEN <<"k">> ELSE <<"$", "A", "B">>] }

AuthHeader == HeaderPrefix \o <<"Authorization">>

OAuthLabels ==
    [l \in {LabelGrantType, LabelTokenEndpoint, LabelClientID, LabelClientSecret} |->
        CASE l = LabelGrantType -> <<"client_credentials">>
          [] l = LabelTokenEndpoint -> <<"https://", "t">>
          [] l = LabelClientID -> <<"$", "{", "K", "}">>
          [] OTHER -> <<"s">>]

\* The labels: none, a header that refers to the service's own variable, a
\* header with a literal value, the X-Empty placeholder, a header that
\* starts with a reference, the OAuth labels, and two invalid sets.
LabelSets ==
    { EmptyMap,
      [l \in {AuthHeader} |-> <<"Bearer ", "$", "{", "K", "}">>],
      [l \in {AuthHeader} |-> <<"Bearer ", "k">>],
      [l \in {HeaderPrefix \o <<"X-Empty">>} |-> EmptyStr],
      [l \in {AuthHeader, HeaderPrefix} |-> <<"$", "B">>],
      OAuthLabels,
      [l \in {LabelGrantType} |-> <<"client_credentials">>],
      Merge(OAuthLabels, [l \in {AuthHeader} |-> <<"Bearer ", "k">>]) }

VolumeLists == {<< >>, << <<"$", "B", ":", "/">>, <<"/">> >>}

\* The services: every command with every environment and label set, and
\* the images with and without volumes, under no command or a reference.
Services ==
    {Service(c, EmptyStr, e, l, << >>) : c \in Commands, e \in Environments, l \in LabelSets}
    \cup
    {Service(c, i, e, l, v) :
        c \in {EmptyStr, <<"$", "{", "A", "}">>}, i \in Images \ {EmptyStr},
        e \in Environments, l \in {EmptyMap, [h \in {AuthHeader} |-> <<"Bearer ", "k">>]},
        v \in VolumeLists}

\* The environments of a translation: empty, A a URL, A and B plain, A a
\* reference to B, A a URL with AB a program, and A two words.
TranslateEnvs ==
    { EmptyMap,
      [k \in {<<"A">>} |-> <<"a", " ", "b">>],
      [k \in {<<"A">>} |-> URL],
      [k \in {<<"A">>, <<"B">>} |-> <<"/">>],
      [k \in {<<"A">>, <<"B">>} |-> IF k = <<"A">> THEN <<"$", "B">> ELSE <<"/">>],
      [k \in {<<"A">>, <<"A", "B">>} |-> IF k = <<"A">> THEN URL ELSE <<"uvx">>] }

ContainerTools == {<<"docker">>, <<"podman">>}

InitTranslate ==
    /\ pc = "start"
    /\ envVars \in TranslateEnvs
    /\ service \in Services
    /\ containerTool \in ContainerTools
    /\ record = NoRecord /\ record2 = NoRecord /\ compared = NoComparison
    /\ deployedServer = << >>
    /\ IdleExpand /\ IdleFilter /\ IdleLoad /\ IdleSet /\ IdleStatus /\ IdleAuth

\* convertToMCPConfig on the service: a record, or the exit of the program.
Convert ==
    /\ pc = "start"
    /\ record' \in ConvertOutcomes(service, envVars, containerTool)
    /\ pc' = IF record'.ok THEN "converted" ELSE "exit"
    /\ UNCHANGED <<envVars, service, containerTool, record2, deployedServer, compared,
                   varsExpand, varsFilter, varsLoad, varsSet, varsStatus, varsAuth>>

\* A second run of convertToMCPConfig on the same service and environment.
ConvertAgain ==
    /\ pc = "converted"
    /\ record2' \in ConvertOutcomes(service, envVars, containerTool)
    /\ pc' = "twice"
    /\ UNCHANGED <<envVars, service, containerTool, record, deployedServer, compared,
                   varsExpand, varsFilter, varsLoad, varsSet, varsStatus, varsAuth>>

\* compareServerConfig of the service against the record translated.
Compare ==
    /\ pc = "converted"
    /\ compared' \in CompareOutcomes(service, record.server, envVars, containerTool)
    /\ pc' = "compared"
    /\ UNCHANGED <<envVars, service, containerTool, record, record2, deployedServer,
                   varsExpand, varsFilter, varsLoad, varsSet, varsStatus, varsAuth>>

\* The versions of the service a tool's file can come from: the service
\* as it is, and the service before its volumes or its environment were
\* edited.
EarlierVersions(svc) ==
    {svc}
    \cup {[svc EXCEPT !.Volumes = v] : v \in IF svc.Image = << >> THEN {} ELSE VolumeLists}
    \cup {[svc EXCEPT !.Environment = e] : e \in Environments}

\* The records of a tool's file edited by hand or by another program.
EditedRecords(r) ==
    IF r.class = "remote"
    THEN {r.server,
          [r.server EXCEPT !.URL = <<"https://", "other">>],
          [r.server EXCEPT !.Type = <<"sse">>],
          [r.server EXCEPT !.Headers = MapSet(@, <<"X-Other">>, <<"v">>)],
          [r.server EXCEPT !.Headers = EmptyMap]}
    ELSE {r.server,
          [r.server EXCEPT !.Command = <<"other">>],
          [r.server EXCEPT !.Args = << >>],
          [r.server EXCEPT !.Args = Append(@, <<"other">>)],
          [r.server EXCEPT !.Args = IF @ = << >> THEN @ ELSE <<<<"other">>>> \o Tail(@)],
          [r.server EXCEPT !.Env = MapSet(@, <<"X">>, <<"v">>)]}

\* The records found under the service's name in a tool's file: what set
\* wrote for a version of the service, as written or edited since.
DeployedRecords(svc, env, tool) ==
    UNION {EditedRecords(r) :
              r \in {o \in UNION {ConvertOutcomes(v, env, tool) : v \in EarlierVersions(svc)} :
                         o.ok}}

\* compareServerConfig of the service against a record of a tool's file.
CompareDeployed ==
    /\ pc = "start"
    /\ deployedServer' \in DeployedRecords(service, envVars, containerTool)
    /\ compared' \in CompareOutcomes(service, deployedServer', envVars, containerTool)
    /\ pc' = "deployed"
    /\ UNCHANGED <<envVars, service, containerTool, record, record2,
                   varsExpand, varsFilter, varsLoad, varsSet, varsStatus, varsAuth>>

NextTranslate == Convert \/ ConvertAgain \/ Compare \/ CompareDeployed

SpecTranslate == InitTranslate /\ [][NextTranslate]_vars

(***************************************************************************)
(* The classification of a service as the specification gives it: remote   *)
(* iff the expanded command starts with http:// or https://, else          *)
(* container iff the image is not empty, else command.                     *)
(***************************************************************************)
ClassOf(svc, expandedCommand) ==
    IF IsURL(expandedCommand) THEN "remote"
    ELSE IF svc.Image # << >> THEN "container"
    ELSE "command"

Classes(svc, env) == {ClassOf(svc, c) : c \in Expansions(svc.Command, env)}

(***************************************************************************)
(* C1.  Comparator reflexivity: for a valid service all of whose           *)
(* references resolve (to one value, with no $ left), comparing the        *)
(* service with the record convertToMCPConfig made of it under the same    *)
(* environment gives "configured" and no differences.                      *)
(***************************************************************************)
Resolves(s, env) ==
    /\ Cardinality(Expansions(s, env)) = 1
    /\ \A x \in Expansions(s, env) : ~Contains(x, <<"$">>)

FullyResolvable(svc, env) ==
    /\ Resolves(svc.Command, env)
    /\ Resolves(svc.Image, env)
    /\ \A k \in DOMAIN svc.Environment : Resolves(svc.Environment[k], env)
    /\ \A i \in DOMAIN svc.Volumes : Resolves(svc.Volumes[i], env)
    /\ \A senv \in ServiceEnvMaps(svc, env) :
          \A l \in DOMAIN svc.Labels : Resolves(svc.Labels[l], senv)

ValidService(svc, env) ==
    /\ Cardinality(Classes(svc, env)) = 1
    /\ "remote" \in Classes(svc, env) => ValidateRemoteServerAuth(svc).err = "ok"
    /\ "command" \in Classes(svc, env) => Fields(svc.Command) # << >>

C1_CompareAfterConvert ==
    (pc = "compared" /\ ValidService(service, envVars) /\ FullyResolvable(service, envVars))
        => compared.status = "configured" /\ compared.differences = << >>

(***************************************************************************)
(* C5.  The class of a service is the one its expanded command and its     *)
(* image give, and that class is the one applied by the translation and    *)
(* by the status comparison.                                               *)
(***************************************************************************)
C5_OneClassification ==
    /\ pc \in {"converted", "twice", "compared"} => record.class \in Classes(service, envVars)
    /\ (pc = "compared" /\ compared.class # "none") =>
          compared.class \in Classes(service, envVars)

(***************************************************************************)
(* C7.  Two runs of the translation of a service that is not in OAuth mode *)
(* under the same environment give the same record: the same command, url, *)
(* type, headers, env, and the same args, for a container up to the order  *)
(* of the -e pairs.                                                        *)
(***************************************************************************)
\* The -e pairs of the arguments of a container with n environment entries.
EnvPairs(args, n) ==
    {<<args[3 + 2 * i - 1], args[3 + 2 * i]>> : i \in 1..n}

SameArgs(svc, a, b) ==
    \/ a = b
    \/ LET n == Cardinality(DOMAIN svc.Environment)
       IN  /\ svc.Image # << >>
           /\ Len(a) = Len(b) /\ Len(a) >= 3 + 2 * n
           /\ EnvPairs(a, n) = EnvPairs(b, n)
           /\ \A i \in DOMAIN a : (i <= 3 \/ i > 3 + 2 * n) => a[i] = b[i]

OAuthMode(svc, env) == TRUE \in RemoteVerdicts(svc, env) /\ ~UsesHeadersAuth(svc)

C7_TranslationDeterministic ==
    (pc = "twice" /\ ~OAuthMode(service, envVars)) =>
        /\ record2.ok
        /\ record2.server.Command = record.server.Command
        /\ record2.server.URL = record.server.URL
        /\ record2.server.Type = record.server.Type
        /\ record2.server.Headers = record.server.Headers
        /\ record2.server.Env = record.server.Env
        /\ SameArgs(service, record.server.Args, record2.server.Args)

(***************************************************************************)
(* C9.  A record made by the translation is one variant: a remote record   *)
(* has type http and a url, and no command, args or env; a local record    *)
(* has no type, url or headers.                                            *)
(***************************************************************************)
RemoteVariant(r) ==
    /\ r.Type = <<"http">> /\ r.URL # << >>
    /\ r.Command = << >> /\ r.Args = << >> /\ DOMAIN r.Env = {}

LocalVariant(r) == r.Type = << >> /\ r.URL = << >> /\ DOMAIN r.Headers = {}

C9_OneVariant ==
    pc \in {"converted", "twice", "compared"} =>
        RemoteVariant(record.server) \/ LocalVariant(record.server)

(***************************************************************************)
(* The set and clear commands.  One run of a command is a sequence of      *)
(* steps: the output path, the validation of the remote services, the      *)
(* tool check, the conversion of the services one by one, and the write    *)
(* of the document.  os.WriteFile opens the file with O_TRUNC and then     *)
(* writes the bytes, so the write is two steps.  The goroutine started by  *)
(* handleSigTerms ends the process between any two steps.                  *)
(***************************************************************************)
supportedTools == <<<<"q-cli">>, <<"claude-desktop">>, <<"cursor">>, <<"kiro">>>>

\* The table of the tools for remote servers with claude-desktop in it.
remoteSupportedToolsWithDesktop ==
    {<<"cursor">>, <<"kiro">>, <<"q-cli">>, <<"claude-desktop">>}

remoteSupportedTools == {<<"cursor">>, <<"kiro">>, <<"q-cli">>}

\* getPlatformToolPath: the path of a tool under the home directory, ""
\* for a tool that is not known.
getPlatformToolPath(tool) ==
    IF \E i \in DOMAIN supportedTools : supportedTools[i] = tool
    THEN <<"~", "/">> \o tool
    ELSE EmptyStr

\* The results of getOutputPath: a path, or an error.
PathFound(path) == [ok |-> TRUE, path |-> path, err |-> ""]

PathError(err) == [ok |-> FALSE, path |-> EmptyStr, err |-> err]

\* os.MkdirAll on the directory of the path: done, or an error.
WithMkdirAll(path) == {PathFound(path), PathError("mkdir")}

\* getOutputPath with the --tool flag looked at before the --config flag.
getOutputPathToolFirst(flag, tool, defaultTool, env) ==
    IF tool # EmptyStr
    THEN IF getPlatformToolPath(tool) = EmptyStr
         THEN {PathError("unknown tool shortcut")}
         ELSE WithMkdirAll(getPlatformToolPath(tool))
    ELSE IF flag # EmptyStr
    THEN {PathFound(e) : e \in Expansions(flag, env)}
    ELSE IF defaultTool # EmptyStr
    THEN WithMkdirAll(defaultTool)
    ELSE {PathError("no output path")}

\* getOutputPath: the --config flag expanded, else the path of --tool,
\* else the default tool of the CLI config file, else an error.
getOutputPath(flag, tool, defaultTool, env) ==
    IF flag # EmptyStr
    THEN {PathFound(e) : e \in Expansions(flag, env)}
    ELSE IF tool # EmptyStr
    THEN IF getPlatformToolPath(tool) = EmptyStr
         THEN {PathError("unknown tool shortcut")}
         ELSE WithMkdirAll(getPlatformToolPath(tool))
    ELSE IF defaultTool # EmptyStr
    THEN WithMkdirAll(defaultTool)
    ELSE {PathError("no output path")}

\* One verdict of IsRemoteServerWithEnvExpansion for every service.
VerdictMaps(svcs, env) ==
    {v \in [DOMAIN svcs -> BOOLEAN] : \A n \in DOMAIN svcs : v[n] \in RemoteVerdicts(svcs[n], env)}

\* The validation loop of set: an error for a service found remote whose
\* auth labels are not valid.
AuthErrors(svcs, verdict) ==
    {n \in DOMAIN svcs : verdict[n] /\ ValidateRemoteServerAuth(svcs[n]).err # "ok"}

\* ValidateToolSupport, with the services classified after expansion.
ValidateToolSupportWithEnvExpansion(tool, svcs, verdict) ==
    LET hasRemoteServers == \E n \in DOMAIN svcs : verdict[n]
    IN  ~(hasRemoteServers /\ tool # EmptyStr /\ tool \notin remoteSupportedTools)

\* The position after the loop body of convertToMCPConfig has run for one
\* service: the loop goes on, or os.Exit(1) when the body failed.
AfterConvertGoesOn(r) == "convert"

AfterConvert(r) == IF r.ok THEN "convert" ELSE "exit"

\* The file a complete write of a document leaves.
Document(m) == [kind |-> "document", servers |-> m]

\* The file after the open with O_TRUNC, or after a write that stopped
\* before the last byte: not a JSON document.
Truncated == [kind |-> "partial", servers |-> << >>]

Running == {"validate", "toolcheck", "convert", "write", "writing"}

SetNames == {"a", "b"}

\* The services of the documents given to set: a command, a container, a
\* remote server with a literal header, one with a header that refers to
\* B, an OAuth server, an OAuth server whose client id does not resolve,
\* and a remote server with no auth labels.
SetServices ==
    { Service(<<"uvx", " ", "srv">>, EmptyStr, EmptyMap, EmptyMap, << >>),
      Service(EmptyStr, <<"img">>, [k \in {<<"K">>} |-> <<"$", "B">>], EmptyMap, << >>),
      Service(URL, EmptyStr, EmptyMap, [l \in {AuthHeader} |-> <<"Bearer ", "k">>], << >>),
      Service(URL, EmptyStr, EmptyMap,
              [l \in {AuthHeader} |-> <<"Bearer ", "$", "{", "B", "}">>], << >>),
      Service(URL, EmptyStr, [k \in {<<"K">>} |-> <<"k">>], OAuthLabels, << >>),
      Service(URL, EmptyStr, EmptyMap, OAuthLabels, << >>),
      Service(URL, EmptyStr, EmptyMap, EmptyMap, << >>) }

SetDocuments == {EmptyMap} \cup [SetNames -> SetServices]

SetEnvs == {EmptyMap, [k \in {<<"B">>} |-> <<"/">>]}

\* A record a tool wrote before.
OldServer == MCPServer(<<"old">>, << >>, << >>, << >>, << >>, << >>)

OldFiles == {Absent, Document([n \in {"old"} |-> OldServer])}

\* The --config flag: not given, a path, and a path with a reference.
ConfigFlags == {EmptyStr, <<"out", ".", "json">>, <<"$", "B", "out">>}

ToolFlags ==
    {EmptyStr, <<"cursor">>, <<"kiro">>, <<"q-cli">>, <<"claude-desktop">>, <<"vim">>}

DefaultTools == {EmptyStr, <<"~", "/", "default", ".", "json">>}

InitSet ==
    /\ pc = "shell"
    /\ config \in SetDocuments
    /\ envVars \in SetEnvs
    /\ targetFile \in OldFiles
    /\ fileBefore = targetFile
    /\ profile = EmptyStr /\ all = FALSE /\ filtered = EmptyMap
    /\ configFile = EmptyStr /\ toolShortcut = EmptyStr /\ outputPath = EmptyStr
    /\ cliConfigTool \in DefaultTools /\ tokenRequests = << >> /\ invoked = ""
    /\ servers = EmptyMap /\ mcpServers = EmptyMap /\ failed = FALSE /\ failure = ""
    /\ IdleExpand /\ IdleLoad /\ IdleTranslate /\ IdleStatus /\ IdleAuth

\* set, up to the selection of the services: the flags, the output path,
\* the profile filter.
SetStart ==
    /\ pc = "shell"
    /\ \E flag \in ConfigFlags, tool \in ToolFlags :
         \E out \in getOutputPath(flag, tool, cliConfigTool, envVars) :
            /\ configFile' = flag
            /\ toolShortcut' = tool
            /\ outputPath' = out.path
            /\ pc' = IF out.ok THEN "validate" ELSE "exit"
            /\ failure' = out.err
            /\ servers' = IF out.ok THEN filterServers(config, profile, FALSE) ELSE EmptyMap
    /\ invoked' = "set"
    /\ UNCHANGED <<envVars, config, profile, all, filtered, cliConfigTool, tokenRequests,
                   mcpServers, targetFile, fileBefore, failed, varsExpand, varsLoad,
                   varsTranslate, varsStatus, varsAuth>>

\* The validation loop finds every remote service valid.
ValidateAuthPasses ==
    /\ pc = "validate"
    /\ \E verdict \in VerdictMaps(servers, envVars) : AuthErrors(servers, verdict) = {}
    /\ pc' = "toolcheck"
    /\ UNCHANGED <<envVars, varsFilter, varsSet, varsExpand, varsLoad, varsTranslate,
                   varsStatus, varsAuth>>

\* The validation loop finds a remote service that is not valid: exit.
ValidateAuthFails ==
    /\ pc = "validate"
    /\ \E verdict \in VerdictMaps(servers, envVars) : AuthErrors(servers, verdict) # {}
    /\ pc' = "exit"
    /\ failed' = TRUE
    /\ failure' = "auth"
    /\ UNCHANGED <<envVars, varsFilter, configFile, toolShortcut, cliConfigTool, tokenRequests, invoked,
                   outputPath, servers,
                   mcpServers, targetFile, fileBefore, varsExpand, varsLoad, varsTranslate,
                   varsStatus, varsAuth>>

\* The tool given supports the services selected.
ToolCheckPasses ==
    /\ pc = "toolcheck"
    /\ \E verdict \in VerdictMaps(servers, envVars) :
          ValidateToolSupportWithEnvExpansion(toolShortcut, servers, verdict)
    /\ pc' = "convert"
    /\ UNCHANGED <<envVars, varsFilter, varsSet, varsExpand, varsLoad, varsTranslate,
                   varsStatus, varsAuth>>

\* The tool given does not support remote servers: exit.
ToolCheckFails ==
    /\ pc = "toolcheck"
    /\ \E verdict \in VerdictMaps(servers, envVars) :
          ~ValidateToolSupportWithEnvExpansion(toolShortcut, servers, verdict)
    /\ pc' = "exit"
    /\ failure' = "tool"
    /\ UNCHANGED <<envVars, varsFilter, varsRun, varsExpand, varsLoad, varsTranslate,
                   varsStatus, varsAuth>>

\* The loop body of convertToMCPConfig for the next service of the range
\* over the services.
ConvertService ==
    /\ pc = "convert"
    /\ \E name \in DOMAIN servers :
         \E r \in ConvertOutcomes(servers[name], envVars, containerTool) :
            /\ mcpServers' = IF r.ok THEN MapSet(mcpServers, name, r.server) ELSE mcpServers
            /\ servers' = [n \in DOMAIN servers \ {name} |-> servers[n]]
            /\ failed' = (failed \/ ~r.ok)
            /\ failure' = IF r.ok THEN "" ELSE "convert"
            /\ tokenRequests' = tokenRequests \o
                  [i \in DOMAIN r.requests |-> [name |-> name, ok |-> r.requests[i]]]
            /\ pc' = AfterConvert(r)
    /\ UNCHANGED <<envVars, varsFilter, configFile, toolShortcut, cliConfigTool, invoked, outputPath, targetFile,
                   fileBefore, varsExpand, varsLoad, varsTranslate, varsStatus, varsAuth>>

\* The loop of convertToMCPConfig is over: the document goes to
\* writeMCPConfig.
ConvertDone ==
    /\ pc = "convert"
    /\ DOMAIN servers = {}
    /\ pc' = "write"
    /\ UNCHANGED <<envVars, varsFilter, varsSet, varsExpand, varsLoad, varsTranslate,
                   varsStatus, varsAuth>>

\* clear: the output path and the empty document.
ClearStart ==
    /\ pc = "shell"
    /\ \E flag \in ConfigFlags, tool \in ToolFlags :
         \E out \in getOutputPath(flag, tool, cliConfigTool, envVars) :
            /\ configFile' = flag
            /\ toolShortcut' = tool
            /\ outputPath' = out.path
            /\ pc' = IF out.ok THEN "write" ELSE "exit"
            /\ failure' = out.err
    /\ invoked' = "clear"
    /\ UNCHANGED <<envVars, varsFilter, cliConfigTool, tokenRequests, servers, mcpServers,
                   targetFile, fileBefore, failed, varsExpand, varsLoad, varsTranslate, varsStatus, varsAuth>>

\* os.WriteFile opens the file: it is created, or cut to no bytes.
WriteOpen ==
    /\ pc = "write"
    /\ targetFile' = Truncated
    /\ pc' = "writing"
    /\ UNCHANGED <<envVars, varsFilter, configFile, toolShortcut, cliConfigTool, tokenRequests, invoked,
                   outputPath, servers,
                   mcpServers, fileBefore, failed, failure, varsExpand, varsLoad, varsTranslate,
                   varsStatus, varsAuth>>

\* The open fails (no permission, no directory): the error is reported.
WriteOpenFails ==
    /\ pc = "write"
    /\ pc' = "exit"
    /\ failure' = "write"
    /\ UNCHANGED <<envVars, varsFilter, varsRun, varsExpand, varsLoad, varsTranslate,
                   varsStatus, varsAuth>>

\* The write that keeps the entries of the file as it was and adds the
\* new ones.
WriteDataMerged ==
    /\ pc = "writing"
    /\ targetFile' = Document(Merge(fileBefore.servers, mcpServers))
    /\ pc' = "done"
    /\ UNCHANGED <<envVars, varsFilter, configFile, toolShortcut, cliConfigTool,
                   tokenRequests, invoked, outputPath, servers, mcpServers, fileBefore,
                   failed, failure, varsExpand, varsLoad, varsTranslate, varsStatus, varsAuth>>

\* The bytes of the document are written and the file is closed.
WriteData ==
    /\ pc = "writing"
    /\ targetFile' = Document(mcpServers)
    /\ pc' = "done"
    /\ UNCHANGED <<envVars, varsFilter, configFile, toolShortcut, cliConfigTool, tokenRequests, invoked,
                   outputPath, servers,
                   mcpServers, fileBefore, failed, failure, varsExpand, varsLoad, varsTranslate,
                   varsStatus, varsAuth>>

\* The write fails before the last byte (no space, an I/O error): the
\* error is reported and the file stays as the failed write left it.
WriteDataFails ==
    /\ pc = "writing"
    /\ pc' = "exit"
    /\ failure' = "write"
    /\ UNCHANGED <<envVars, varsFilter, varsRun, varsExpand, varsLoad, varsTranslate,
                   varsStatus, varsAuth>>

\* handleSigTerms: a signal arrives and the goroutine calls os.Exit(1).
Interrupt ==
    /\ pc \in Running
    /\ pc' = "exit"
    /\ failure' = "signal"
    /\ UNCHANGED <<envVars, varsFilter, varsRun, varsExpand, varsLoad, varsTranslate,
                   varsStatus, varsAuth>>

NextSet ==
    \/ SetStart \/ ValidateAuthPasses \/ ValidateAuthFails
    \/ ToolCheckPasses \/ ToolCheckFails
    \/ ConvertService \/ ConvertDone \/ ClearStart
    \/ WriteOpen \/ WriteOpenFails \/ WriteData \/ WriteDataFails
    \/ Interrupt

SpecSet == InitSet /\ [][NextSet]_vars

(***************************************************************************)
(* C2.  When the validation or the conversion of a service fails in a run  *)
(* of set, the run ends with a failure and the output file is as it was    *)
(* when the run started: nothing of the services converted before the      *)
(* failure is written.                                                     *)
(***************************************************************************)
C2_AllOrNothing == failed => (pc = "exit" /\ targetFile = fileBefore)

\* A conversion failed after another service was converted.
C2_Witness ==
    /\ failed /\ pc = "exit"
    /\ DOMAIN mcpServers # {}
    /\ targetFile = fileBefore

(***************************************************************************)
(* C3.  At every instant of a run of set or clear, and after it, the       *)
(* output file is the file as it was before the run or the complete new    *)
(* document.                                                               *)
(***************************************************************************)
C3_WritesAtomic == targetFile = fileBefore \/ targetFile = Document(mcpServers)

(***************************************************************************)
(* The status pipeline: getToolConfigs loads the config file of every      *)
(* tool, and getServerStatus gives the status of one service in every      *)
(* tool.                                                                   *)
(***************************************************************************)
\* A file that exists and that os.ReadFile cannot read.
Unreadable == [kind |-> "unreadable", servers |-> << >>]

\* loadToolConfig: the config, the path and the error ("" for none).  A
\* file that does not exist gives the empty config and no error.
loadToolConfig(tool, f) ==
    LET path == getPlatformToolPath(tool)
    IN  IF path = EmptyStr
        THEN [config |-> EmptyMap, path |-> EmptyStr, err |-> "unknown tool shortcut"]
        ELSE IF f.kind = "absent"
        THEN [config |-> EmptyMap, path |-> path, err |-> ""]
        ELSE IF f.kind = "unreadable"
        THEN [config |-> EmptyMap, path |-> path, err |-> "error reading config file"]
        ELSE IF f.kind = "partial"
        THEN [config |-> EmptyMap, path |-> path, err |-> "error parsing config file"]
        ELSE [config |-> f.servers, path |-> path, err |-> ""]

fileExists(f) == f.kind # "absent"

ToolConfig(cfg, path, exists, error) ==
    [Config |-> cfg, Path |-> path, Exists |-> exists, Error |-> error]

getToolConfigs(files) ==
    [tool \in DOMAIN files |->
        LET r == loadToolConfig(tool, files[tool])
        IN  IF r.err # ""
            THEN ToolConfig(EmptyMap, r.path, FALSE, r.err)
            ELSE ToolConfig(r.config, r.path,
                            r.path # EmptyStr /\ fileExists(files[tool]), "")]

ServerStatus(status, tool, differences, path, error) ==
    [Status |-> status, Tool |-> tool, Differences |-> differences,
     ConfigPath |-> path, Error |-> error]

\* The body of the loop of getServerStatus, for one tool.
ToolStatuses(serverName, svc, tool, tc, env, ctool) ==
    IF ~tc.Exists
    THEN {ServerStatus("not-configured", tool, << >>, tc.Path, "")}
    ELSE IF tc.Error # ""
    THEN {ServerStatus("unknown", tool, << >>, tc.Path, tc.Error)}
    ELSE IF serverName \notin DOMAIN tc.Config
    THEN {ServerStatus("not-configured", tool, << >>, tc.Path, "")}
    ELSE {ServerStatus(c.status, tool, c.differences, tc.Path, "") :
             c \in CompareOutcomes(svc, tc.Config[serverName], env, ctool)}

\* The maps that give every tool of per one of its statuses.
RECURSIVE StatusMaps(_, _)
StatusMaps(tools, per) ==
    IF tools = {} THEN {<< >>}
    ELSE LET tool == CHOOSE x \in tools : TRUE
         IN  {MapSet(m, tool, s) : m \in StatusMaps(tools \ {tool}, per), s \in per[tool]}

getServerStatus(serverName, svc, configs, env, ctool) ==
    StatusMaps(DOMAIN configs,
               [tool \in DOMAIN configs |->
                   ToolStatuses(serverName, svc, tool, configs[tool], env, ctool)])

\* The name of the service whose status is asked for.
StatusName == "a"

StatusServices ==
    { Service(<<"uvx", " ", "srv", " ", "$", "B">>, EmptyStr, EmptyMap, EmptyMap, << >>),
      Service(EmptyStr, <<"img">>, [k \in {<<"K">>} |-> <<"$", "B">>], EmptyMap, << >>),
      Service(URL, EmptyStr, EmptyMap, [l \in {AuthHeader} |-> <<"Bearer ", "k">>], << >>) }

StatusEnv == [k \in {<<"B">>} |-> <<"/">>]

\* The tools looked at: every supported tool, or the one of the --tool flag.
ToolSets ==
    {{supportedTools[i] : i \in DOMAIN supportedTools}}
        \cup {{supportedTools[i]} : i \in DOMAIN supportedTools}

\* The files a tool can have: none, one that cannot be read, one that is
\* not JSON, a document without the service, a document with another
\* record under its name, and the documents set writes for the service.
StatusFiles(svc) ==
    {Absent, Unreadable, Truncated, Document(EmptyMap),
     Document([n \in {StatusName} |-> OldServer])}
        \cup {Document([n \in {StatusName} |-> r.server]) :
                 r \in {o \in ConvertOutcomes(svc, StatusEnv, <<"docker">>) : o.ok}}

InitStatus ==
    /\ pc = "start"
    /\ service \in StatusServices
    /\ envVars = StatusEnv
    /\ containerTool = <<"docker">>
    /\ \E tools \in ToolSets : toolFiles \in [tools -> StatusFiles(service)]
    /\ toolConfigs = << >> /\ statuses = << >>
    /\ record = NoRecord /\ record2 = NoRecord /\ compared = NoComparison
    /\ deployedServer = << >>
    /\ IdleExpand /\ IdleFilter /\ IdleLoad /\ IdleSet /\ IdleAuth

GetToolConfigs ==
    /\ pc = "start"
    /\ toolConfigs' = getToolConfigs(toolFiles)
    /\ pc' = "loaded"
    /\ UNCHANGED <<envVars, toolFiles, statuses, varsExpand, varsFilter, varsLoad,
                   varsTranslate, varsSet, varsAuth>>

GetServerStatus ==
    /\ pc = "loaded"
    /\ statuses' \in getServerStatus(StatusName, service, toolConfigs, envVars, containerTool)
    /\ pc' = "reported"
    /\ UNCHANGED <<envVars, toolFiles, toolConfigs, varsExpand, varsFilter, varsLoad,
                   varsTranslate, varsSet, varsAuth>>

NextStatus == GetToolConfigs \/ GetServerStatus

SpecStatus == InitStatus /\ [][NextStatus]_vars

(***************************************************************************)
(* C10.  In the statuses reported, a tool whose config file could not be   *)
(* read or parsed has the status unknown with the load error, a tool       *)
(* whose file does not exist has not-configured, and the status of every   *)
(* tool is the one its own file gives, whatever the files of the other     *)
(* tools are.                                                              *)
(***************************************************************************)
\* The statuses of a tool when it is the only tool looked at.
AloneStatuses(tool) ==
    ToolStatuses(StatusName, service, tool,
                 getToolConfigs([t \in {tool} |-> toolFiles[tool]])[tool],
                 envVars, containerTool)

C10_LoadFailureIsUnknown ==
    pc = "reported" =>
        \A tool \in DOMAIN toolFiles :
            /\ toolFiles[tool].kind \in {"unreadable", "partial"} =>
                  statuses[tool].Status = "unknown" /\ statuses[tool].Error # ""
            /\ toolFiles[tool].kind = "absent" => statuses[tool].Status = "not-configured"
            /\ statuses[tool] \in AloneStatuses(tool)

(***************************************************************************)
(* Specification of the auth functions on one remote service:              *)
(* ValidateRemoteServerAuth, ExtractHeaders, ExtractOAuthConfig, and       *)
(* acquireAccessToken on the config extracted.                             *)
(***************************************************************************)
WithLabel(labels, l, v) == MapSet(labels, l, v)

Without(labels, ls) == [l \in DOMAIN labels \ ls |-> labels[l]]

\* The labels of the services: those of the translation, and a header
\* with a reference inside its value, OAuth labels with some missing, with
\* a wrong, an empty and an unexpanded grant type, an empty grant type
\* alone and next to a header, a token endpoint that is not a URL net/url
\* parses, and a client secret that is a bare reference.
AuthLabelSets ==
    LabelSets \cup
    { [l \in {HeaderPrefix \o <<"X">>} |-> <<"x", "$", "B">>],
      Without(OAuthLabels, {LabelClientID, LabelClientSecret}),
      Without(OAuthLabels, {LabelTokenEndpoint}),
      WithLabel(OAuthLabels, LabelGrantType, <<"password">>),
      WithLabel(OAuthLabels, LabelGrantType, EmptyStr),
      WithLabel(OAuthLabels, LabelGrantType, <<"$", "{", "G", "}">>),
      [l \in {LabelGrantType} |-> EmptyStr],
      [l \in {LabelGrantType, AuthHeader} |->
          IF l = LabelGrantType THEN EmptyStr ELSE <<"Bearer ", "k">>],
      WithLabel(OAuthLabels, LabelTokenEndpoint, <<"https://", " ">>),
      WithLabel(OAuthLabels, LabelClientSecret, <<"$", "B">>) }

AuthServices == {Service(URL, EmptyStr, EmptyMap, l, << >>) : l \in AuthLabelSets}

\* The environments: empty, B set, K set to a value that ends with a
\* dollar sign, and B and K set.
AuthEnvs ==
    { EmptyMap,
      [k \in {<<"B">>} |-> <<"/">>],
      [k \in {<<"K">>} |-> <<"p", "$">>],
      [k \in {<<"B">>, <<"K">>} |-> IF k = <<"B">> THEN <<"/">> ELSE <<"k">>] }

InitAuth ==
    /\ pc = "start"
    /\ service \in AuthServices
    /\ envVars \in AuthEnvs
    /\ response = NoResponse /\ result = NoResult
    /\ containerTool = <<"docker">>
    /\ record = NoRecord /\ record2 = NoRecord /\ compared = NoComparison
    /\ deployedServer = << >>
    /\ IdleExpand /\ IdleFilter /\ IdleLoad /\ IdleSet /\ IdleStatus

Validate ==
    /\ pc = "start"
    /\ result' = ValidateRemoteServerAuth(service)
    /\ pc' = "validated"
    /\ UNCHANGED <<envVars, response, varsExpand, varsFilter, varsLoad, varsTranslate,
                   varsSet, varsStatus>>

Headers ==
    /\ pc = "start"
    /\ result' \in HeaderOutcomes(service, envVars)
    /\ pc' = "headers"
    /\ UNCHANGED <<envVars, response, varsExpand, varsFilter, varsLoad, varsTranslate,
                   varsSet, varsStatus>>

OAuth ==
    /\ pc = "start"
    /\ result' \in OAuthOutcomes(service, envVars)
    /\ pc' = "oauth"
    /\ UNCHANGED <<envVars, response, varsExpand, varsFilter, varsLoad, varsTranslate,
                   varsSet, varsStatus>>

\* The answers there can be to a request to url: none when the request
\* cannot be made, a transport failure when url is not an http(s) URL.
ResponsesTo(url) ==
    IF Contains(url, <<" ">>) THEN {NoResponse}
    ELSE IF ~IsURL(url) THEN {r \in Responses : r.transport = "error"}
    ELSE Responses

\* acquireAccessToken with the config ExtractOAuthConfig returned.
Token ==
    /\ pc = "oauth"
    /\ result.ok
    /\ \E resp \in ResponsesTo(result.config.TokenURL) :
          /\ response' = resp
          /\ result' = acquireAccessToken(result.config, resp)
    /\ pc' = "token"
    /\ UNCHANGED <<envVars, varsExpand, varsFilter, varsLoad, varsTranslate,
                   varsSet, varsStatus>>

NextAuth == Validate \/ Headers \/ OAuth \/ Token

SpecAuth == InitAuth /\ [][NextAuth]_vars

\* The service has a label that starts with mcp.header.
HeadersPresent == \E l \in DOMAIN service.Labels : HasPrefix(l, <<"mcp.header.">>)

\* The service has the label mcp.grant-type.
GrantTypePresent == <<"mcp.grant-type">> \in DOMAIN service.Labels

(***************************************************************************)
(* C11.  ValidateRemoteServerAuth accepts a service only if exactly one of *)
(* the two holds: a mcp.header.* label is present, the mcp.grant-type      *)
(* label is present.  With none of them the error is the one for none,     *)
(* with both the error is the one for both.                                *)
(***************************************************************************)
C11_ExactlyOneMode ==
    pc = "validated" =>
        /\ result.err = "ok" => (HeadersPresent # GrantTypePresent)
        /\ (~HeadersPresent /\ ~GrantTypePresent) => result.err = "neither"
        /\ (HeadersPresent /\ GrantTypePresent) => result.err = "both"

(***************************************************************************)
(* C12.  For a service with the mcp.grant-type label and no header label,  *)
(* ValidateRemoteServerAuth succeeds iff the four OAuth labels are present *)
(* and the grant type is client_credentials; with labels missing the error *)
(* lists the missing labels in the fixed order, and else a wrong grant     *)
(* type is reported.                                                       *)
(***************************************************************************)
RequiredOAuthLabels ==
    <<<<"mcp.grant-type">>, <<"mcp.token-endpoint">>, <<"mcp.client-id">>,
      <<"mcp.client-secret">>>>

MissingOAuthLabels == SelectSeq(RequiredOAuthLabels, LAMBDA l : l \notin DOMAIN service.Labels)

C12_OAuthLabelsChecked ==
    (pc = "validated" /\ GrantTypePresent /\ ~HeadersPresent) =>
        LET grantType == service.Labels[<<"mcp.grant-type">>]
        IN  /\ result.err = "ok" <=>
                  (MissingOAuthLabels = << >> /\ grantType = <<"client_credentials">>)
            /\ MissingOAuthLabels # << >> =>
                  (result.err = "missing" /\ result.missing = MissingOAuthLabels)
            /\ (MissingOAuthLabels = << >> /\ grantType # <<"client_credentials">>) =>
                  result.err = "grant-type"

\* The symbols that start a reference after a dollar sign.
RefStart == {"{", "A", "B", "K", "G"}

\* v holds a reference, ${VAR} or $VAR, at some position.
HasReference(v) == \E i \in 1..(Len(v) - 1) : v[i] = "$" /\ v[i + 1] \in RefStart

(***************************************************************************)
(* C13.  ExtractHeaders never returns a header whose value still holds a   *)
(* reference, ${VAR} or $VAR, at any position: it returns an error.        *)
(***************************************************************************)
C13_NoUnresolvedHeader ==
    (pc = "headers" /\ result.ok) =>
        \A name \in DOMAIN result.headers : ~HasReference(result.headers[name])

(***************************************************************************)
(* C14.  On success ExtractHeaders returns one entry for every label       *)
(* mcp.header.<Name> with a name, but X-Empty with an empty value, keyed   *)
(* by the name and holding the expanded value; it fails iff the service    *)
(* has no mcp.header.* label or one of these values is unresolved.         *)
(***************************************************************************)
NamedHeaderLabels ==
    {l \in DOMAIN service.Labels :
        /\ HasPrefix(l, <<"mcp.header.">>) /\ Len(l) > 1
        /\ ~(l = <<"mcp.header.", "X-Empty">> /\ service.Labels[l] = EmptyStr)}

C14_HeaderMap ==
    pc = "headers" =>
        /\ result.ok =>
              /\ DOMAIN result.headers = {Tail(l) : l \in NamedHeaderLabels}
              /\ \A l \in NamedHeaderLabels :
                    result.headers[Tail(l)] \in Expansions(service.Labels[l], envVars)
        /\ ~result.ok <=>
              \/ ~HeadersPresent
              \/ \E l \in NamedHeaderLabels :
                    \E v \in Expansions(service.Labels[l], envVars) : HasReference(v)

(***************************************************************************)
(* C15.  ExtractOAuthConfig returns the four label values expanded, and    *)
(* fails iff the expanded client id, client secret or token endpoint       *)
(* still holds a reference; the grant type is never a reason to fail.      *)
(***************************************************************************)
LabelValue(l) == IF l \in DOMAIN service.Labels THEN service.Labels[l] ELSE EmptyStr

C15_OAuthConfig ==
    pc = "oauth" =>
        /\ result.config.GrantType \in Expansions(LabelValue(<<"mcp.grant-type">>), envVars)
        /\ result.config.TokenURL \in Expansions(LabelValue(<<"mcp.token-endpoint">>), envVars)
        /\ result.config.ClientID \in Expansions(LabelValue(<<"mcp.client-id">>), envVars)
        /\ result.config.ClientSecret \in
              Expansions(LabelValue(<<"mcp.client-secret">>), envVars)
        /\ ~result.ok <=>
              \/ HasReference(result.config.ClientID)
              \/ HasReference(result.config.ClientSecret)
              \/ HasReference(result.config.TokenURL)

(***************************************************************************)
(* C16.  acquireAccessToken returns a token iff the endpoint answers with  *)
(* a 2xx status and a JSON body with a non-empty access_token, and the     *)
(* token is that one; a transport failure, 401, 403, another status that   *)
(* is not 2xx (with its code), a body that is not JSON and a missing       *)
(* access_token each give their own error and no token.                    *)
(***************************************************************************)
Is2xx(status) == status \in 200..299

C16_TokenAcquisition ==
    (pc = "token" /\ response # NoResponse) =>
        /\ result.ok <=>
              /\ response.transport = "ok" /\ Is2xx(response.status)
              /\ response.body = "json" /\ response.token # EmptyStr
        /\ result.ok => result.token = response.token
        /\ ~result.ok => result.token = EmptyStr
        /\ response.transport = "error" => result.err = "network error"
        /\ response.transport = "ok" =>
              /\ response.status = 401 => result.err = "401 Unauthorized"
              /\ response.status = 403 => result.err = "403 Forbidden"
              /\ (~Is2xx(response.status) /\ response.status \notin {401, 403}) =>
                    (result.err = "status" /\ result.code = response.status)
              /\ (Is2xx(response.status) /\ response.body # "json") =>
                    result.err = "failed to parse"
              /\ (Is2xx(response.status) /\ response.body = "json"
                      /\ response.token = EmptyStr) =>
                    result.err = "missing access_token"

\* A 2xx answer that is not 200, with a token in its JSON body.
C16_Witness ==
    /\ pc = "token" /\ response.transport = "ok"
    /\ Is2xx(response.status) /\ response.status # 200
    /\ response.body = "json" /\ response.token # EmptyStr
    /\ result.ok /\ result.token = response.token

(***************************************************************************)
(* C17.  Container translation: for a service that is Local-Container      *)
(* (its expanded command is no URL and it has an image), the record has    *)
(* the container tool as command; its args are run, -i, --rm, then one     *)
(* pair -e KEY=expanded value for every environment entry, then one pair   *)
(* -v expanded volume for every volume in the declared order, then the     *)
(* expanded image as the last argument; and its env field holds the        *)
(* expanded environment map.                                               *)
(***************************************************************************)
LocalContainer == Classes(service, envVars) = {"container"}

EnvFlagValues(args, n) == {args[3 + 2 * i] : i \in 1..n}

LocalCommand == Classes(service, envVars) = {"command"}

C18_CommandTranslation ==
    (pc = "converted" /\ LocalCommand) =>
        LET parts == Fields(service.Command)
            args == record.server.Args
        IN  /\ record.ok /\ record.class = "command"
            /\ IF parts = << >>
               THEN record.server.Command = EmptyStr /\ args = << >>
               ELSE /\ record.server.Command = parts[1]
                    /\ Len(args) = Len(parts) - 1
                    /\ \A i \in 1..Len(args) :
                           args[i] \in Expansions(parts[i + 1], envVars)

\* A command whose last token expands to two words has been translated:
\* the two words are one arg.
C18_Witness ==
    /\ pc = "converted" /\ LocalCommand /\ record.class = "command"
    /\ Len(Fields(service.Command)) = 3
    /\ Len(record.server.Args) = 2
    /\ record.server.Args[2] = <<"a", " ", "b">>

(***************************************************************************)
(* C19.  Every status result has one of the statuses configured,           *)
(* not-configured, different and unknown; its list of differences is not   *)
(* empty iff its status is different; and it carries an error string only  *)
(* when its status is unknown.  Checked of the statuses reported, and of   *)
(* getServerStatus on the configs loaded with every value of Exists and    *)
(* Error.                                                                  *)
(***************************************************************************)
StatusValues == {"configured", "not-configured", "different", "unknown"}

WellFormedStatus(s) ==
    /\ s.Status \in StatusValues
    /\ (s.Differences # << >>) <=> (s.Status = "different")
    /\ (s.Error # "") => (s.Status = "unknown")

C19_StatusResult ==
    pc = "reported" =>
        /\ \A tool \in DOMAIN statuses : WellFormedStatus(statuses[tool])
        /\ \A tool \in DOMAIN toolConfigs, exists \in BOOLEAN,
                error \in {"", "error parsing config file"} :
               \A s \in ToolStatuses(StatusName, service, tool,
                                     ToolConfig(toolConfigs[tool].Config,
                                                toolConfigs[tool].Path, exists, error),
                                     envVars, containerTool) :
                   WellFormedStatus(s)

\* Two tools have been reported, one different with two differences and
\* one configured.
C19_Witness ==
    /\ pc = "reported"
    /\ \E tool \in DOMAIN statuses :
           statuses[tool].Status = "different" /\ Len(statuses[tool].Differences) >= 2
    /\ \E tool \in DOMAIN statuses :
           statuses[tool].Status = "configured" /\ statuses[tool].Differences = << >>

(***************************************************************************)
(* C20.  Tool support for remote servers: the tool-support validation of   *)
(* set fails, before any file is written, iff the services selected hold   *)
(* a remote server and the tool shortcut given is none of cursor, kiro     *)
(* and q-cli; with local services only, or with no tool shortcut, it       *)
(* never fails.                                                            *)
(***************************************************************************)
\* A tool shortcut is given and it is none of the three.
NoRemoteTool ==
    toolShortcut # EmptyStr /\ toolShortcut \notin {<<"cursor">>, <<"kiro">>, <<"q-cli">>}

SomeRemote == \E n \in DOMAIN servers : "remote" \in Classes(servers[n], envVars)

SurelyRemote == \E n \in DOMAIN servers : Classes(servers[n], envVars) = {"remote"}

\* The step of the tool-support validation, when no signal ends the run.
ToolCheckStep ==
    (pc = "toolcheck" /\ failure' # "signal") =>
        /\ failure' = "tool" => (NoRemoteTool /\ SomeRemote /\ pc' = "exit")
        /\ failure' # "tool" => (~(NoRemoteTool /\ SurelyRemote) /\ pc' = "convert")

DefiningLine(text) ==
    LET line == TrimSpace(text)
    IN  line # EmptyStr /\ ~HasPrefix(line, <<"#">>) /\ IndexOf(line, "=") > 0

KeyOfLine(text) ==
    LET line == TrimSpace(text)
    IN  TrimSpace(SubSeq(line, 1, IndexOf(line, "=") - 1))

C21_ParsesToCompletion ==
    (pc # "start" /\ dotenv.exists /\ dotenv.readable) =>
        /\ pc = "done"
        /\ \A i \in DOMAIN dotenv.lines :
              DefiningLine(dotenv.lines[i]) => KeyOfLine(dotenv.lines[i]) \in DOMAIN envVars

(***************************************************************************)
(* C22.  With the all flag, filterServers returns every service of the     *)
(* document, whatever the profile: the result is the document's service    *)
(* map, which is also the result for the empty profile.                    *)
(***************************************************************************)
C22_AllFlagWins ==
    (pc = "done" /\ all) =>
        /\ DOMAIN filtered = DOMAIN config
        /\ \A name \in DOMAIN config : filtered[name] = config[name]
        /\ filtered = filterServers(config, EmptyStr, TRUE)

\* The all flag with a named profile returned a service that is neither
\* default nor tagged with the profile.
C22_Witness ==
    /\ pc = "done" /\ all /\ profile = <<"prog">>
    /\ \E n \in DOMAIN filtered :
          n \notin DefaultNames(config) \cup TaggedNames(config, profile)
    /\ \E n \in DOMAIN filtered : n \in TaggedNames(config, profile)

(***************************************************************************)
(* C23.  Output path precedence: getOutputPath returns the expanded        *)
(* --config path whenever --config is given, whatever --tool and the       *)
(* default are; otherwise the platform path of the --tool shortcut, and    *)
(* an error for an unknown shortcut; otherwise the default tool path of    *)
(* the CLI config file; and an error when none of the three is there.      *)
(* Creating the directory of a tool path can fail on its own.              *)
(***************************************************************************)
PathErrors == {"unknown tool shortcut", "mkdir", "no output path"}

KnownShortcuts == {<<"q-cli">>, <<"claude-desktop">>, <<"cursor">>, <<"kiro">>}

C23_OutputPathPrecedence ==
    pc # "shell" =>
        IF configFile # EmptyStr
        THEN failure \notin PathErrors /\ outputPath \in Expansions(configFile, envVars)
        ELSE IF toolShortcut # EmptyStr
        THEN IF toolShortcut \in KnownShortcuts
             THEN \/ failure = "mkdir"
                  \/ failure \notin PathErrors /\ outputPath = <<"~", "/">> \o toolShortcut
             ELSE failure = "unknown tool shortcut"
        ELSE IF cliConfigTool # EmptyStr
        THEN \/ failure = "mkdir"
             \/ failure \notin PathErrors /\ outputPath = cliConfigTool
        ELSE failure = "no output path"

\* set -c $Bout -t vim, with a default tool configured, has written the
\* file at the expanded path of -c.
C23_Witness ==
    /\ pc = "done"
    /\ configFile = <<"$", "B", "out">> /\ outputPath = <<"/", "out">>
    /\ toolShortcut = <<"vim">> /\ cliConfigTool # EmptyStr

(***************************************************************************)
(* C24.  Drift detection is sound: for a service that is not in OAuth      *)
(* mode and a record of a tool's file that is not the zero record,         *)
(* compareServerConfig answers "configured" only if the record is one the  *)
(* translation of the service under the environment produces.              *)
(***************************************************************************)
Translations(svc, env, tool) ==
    {o.server : o \in {x \in ConvertOutcomes(svc, env, tool) : x.ok}}

C24_DriftDetectionSound ==
    (pc = "deployed" /\ ~OAuthMode(service, envVars) /\ compared.status = "configured") =>
        deployedServer \in Translations(service, envVars, containerTool)

(***************************************************************************)
(* C25.  For a remote service, compareRemoteServers reports a URL          *)
(* difference iff the url of the deployed record differs from the          *)
(* service's command after the expansion of its references with the        *)
(* environment.                                                            *)
(***************************************************************************)
ReportsURLMismatch == \E i \in DOMAIN compared.differences : compared.differences[i] = "URL mismatch"

C25_URLDifference ==
    (pc = "deployed" /\ compared.class = "remote") =>
        /\ ReportsURLMismatch =>
              \E url \in Expansions(service.Command, envVars) : deployedServer.URL # url
        /\ ~ReportsURLMismatch =>
              \E url \in Expansions(service.Command, envVars) : deployedServer.URL = url

(***************************************************************************)
(* C26.  For a remote service in headers mode, compareRemoteServers        *)
(* computes the expected headers again, with the service's environment     *)
(* over the global one, and reports "headers mismatch", once, iff the      *)
(* headers of the deployed record are not the expected headers, key by     *)
(* key and value by value.                                                 *)
(***************************************************************************)
HeaderMismatches ==
    Cardinality({i \in DOMAIN compared.differences :
                    compared.differences[i] = "headers mismatch"})

\* The results of ExtractHeaders a comparison can get for the service.
ExpectedHeaders ==
    UNION {HeaderOutcomes(service, senv) : senv \in ServiceEnvMaps(service, envVars)}

HeadersAsExpected(e) ==
    /\ e.ok
    /\ DOMAIN e.headers = DOMAIN deployedServer.Headers
    /\ \A name \in DOMAIN e.headers : deployedServer.Headers[name] = e.headers[name]

C26_HeadersMismatch ==
    (pc = "deployed" /\ compared.class = "remote" /\ UsesHeadersAuth(service)) =>
        /\ HeaderMismatches <= 1
        /\ HeaderMismatches = 1 => \E e \in ExpectedHeaders : ~HeadersAsExpected(e)
        /\ HeaderMismatches = 0 => \E e \in ExpectedHeaders : HeadersAsExpected(e)

(***************************************************************************)
(* C27.  For a Local-Command service, compareLocalServers answers          *)
(* "different" iff the command of the deployed record is not the first     *)
(* token of the service's command, or its args are not the other tokens,   *)
(* each expanded, in the same order and number, or its env is not the      *)
(* service's expanded environment, key by key.                             *)
(***************************************************************************)
FirstToken(s) == IF Fields(s) = << >> THEN EmptyStr ELSE Head(Fields(s))

\* The args are the tokens after the first, each one of its expansions.
ArgsAsExpected(args) ==
    LET rest == RestFields(service.Command)
    IN  /\ Len(args) = Len(rest)
        /\ \A i \in DOMAIN rest : args[i] \in Expansions(rest[i], envVars)

EnvAsExpected(env) ==
    /\ DOMAIN env = DOMAIN service.Environment
    /\ \A key \in DOMAIN env : env[key] \in Expansions(service.Environment[key], envVars)

\* The same with "every expansion" for "one of the expansions".
ArgsSurelyExpected(args) ==
    LET rest == RestFields(service.Command)
    IN  /\ Len(args) = Len(rest)
        /\ \A i \in DOMAIN rest : Expansions(rest[i], envVars) = {args[i]}

EnvSurelyExpected(env) ==
    /\ DOMAIN env = DOMAIN service.Environment
    /\ \A key \in DOMAIN env : Expansions(service.Environment[key], envVars) = {env[key]}

C27_CommandComparison ==
    (pc = "deployed" /\ LocalCommand /\ compared.class = "command") =>
        /\ compared.status \in {"configured", "different"}
        /\ compared.status = "configured" =>
              /\ deployedServer.Command = FirstToken(service.Command)
              /\ ArgsAsExpected(deployedServer.Args)
              /\ EnvAsExpected(deployedServer.Env)
        /\ compared.status = "different" =>
              ~(/\ deployedServer.Command = FirstToken(service.Command)
                /\ ArgsSurelyExpected(deployedServer.Args)
                /\ EnvSurelyExpected(deployedServer.Env))

(***************************************************************************)
(* C28.  For a Local-Container service, compareLocalServers reports a      *)
(* difference whenever the command of the deployed record is not the       *)
(* container tool, its args are fewer than three or do not start with      *)
(* run, -i, --rm, its env is not the service's expanded environment, or    *)
(* its last arg is not the expanded image; a record without args is never  *)
(* found configured.                                                       *)
(***************************************************************************)
StartsWithRun(args) ==
    /\ Len(args) >= 3
    /\ args[1] = <<"run">> /\ args[2] = <<"-i">> /\ args[3] = <<"--rm">>

EndsWithImage(args) ==
    /\ args # << >>
    /\ args[Len(args)] \in Expansions(service.Image, envVars)

C28_ContainerComparison ==
    (/\ pc = "deployed" /\ LocalContainer /\ compared.class = "container"
     /\ \/ deployedServer.Command # containerTool
        \/ ~StartsWithRun(deployedServer.Args)
        \/ ~EnvAsExpected(deployedServer.Env)
        \/ ~EndsWithImage(deployedServer.Args))
        => (compared.status = "different" /\ compared.differences # << >>)

\* A deployed record with the tool and the env of the service and no args
\* has been found different.
C28_Witness ==
    /\ pc = "deployed" /\ LocalContainer /\ compared.status = "different"
    /\ deployedServer.Command = containerTool
    /\ deployedServer.Args = << >>
    /\ DOMAIN service.Environment # {} /\ EnvAsExpected(deployedServer.Env)
    /\ compared.differences = <<"missing container run arguments">>

(***************************************************************************)
(* C29.  No retry: in one run of set at most one token request is made     *)
(* for a service, and only for a service in OAuth mode; the first token    *)
(* request that fails is the last one, the run ends there and the output   *)
(* file is not written.                                                    *)
(***************************************************************************)
C29_NoRetry ==
    /\ \A i, j \in DOMAIN tokenRequests :
          tokenRequests[i].name = tokenRequests[j].name => i = j
    /\ \A i \in DOMAIN tokenRequests :
          /\ tokenRequests[i].name \in DOMAIN config
          /\ OAuthMode(config[tokenRequests[i].name], envVars)
          /\ ~tokenRequests[i].ok =>
                (i = Len(tokenRequests) /\ pc = "exit" /\ targetFile = fileBefore)

\* The token request of the second OAuth service failed after the one of
\* the first had returned a token.
C29_Witness ==
    /\ Len(tokenRequests) = 2
    /\ tokenRequests[1].ok /\ ~tokenRequests[2].ok
    /\ pc = "exit" /\ failure = "convert" /\ targetFile = fileBefore
    /\ DOMAIN mcpServers # {}

(***************************************************************************)
(* Specification of set and clear invoked again and again on one target    *)
(* file, with the flags of the first invocation, the compose document      *)
(* edited between the invocations, and the status of the services asked    *)
(* for after an invocation.                                                *)
(***************************************************************************)
\* The services of the documents: a command, a remote server with a
\* header, and an OAuth server.
RunServices ==
    { Service(<<"uvx", " ", "srv">>, EmptyStr, EmptyMap, EmptyMap, << >>),
      Service(URL, EmptyStr, EmptyMap, [l \in {AuthHeader} |-> <<"Bearer ", "k">>], << >>),
      Service(URL, EmptyStr, [k \in {<<"K">>} |-> <<"k">>], OAuthLabels, << >>) }

RunDocuments ==
    {EmptyMap} \cup [{"a"} -> RunServices] \cup [{"a", "b"} -> RunServices]

\* The flags: --tool cursor, --config out.json, and none with a default
\* tool in the CLI config file.
RunFlags ==
    { [flag |-> EmptyStr, tool |-> <<"cursor">>, defaultTool |-> EmptyStr],
      [flag |-> <<"out", ".", "json">>, tool |-> EmptyStr, defaultTool |-> EmptyStr],
      [flag |-> EmptyStr, tool |-> EmptyStr, defaultTool |-> <<"~", "/", "default", ".", "json">>] }

InitRuns ==
    /\ pc = "shell"
    /\ config \in RunDocuments
    /\ envVars = EmptyMap
    /\ targetFile \in OldFiles
    /\ fileBefore = targetFile
    /\ profile = EmptyStr /\ all = FALSE /\ filtered = EmptyMap
    /\ \E f \in RunFlags :
          /\ configFile = f.flag /\ toolShortcut = f.tool /\ cliConfigTool = f.defaultTool
          /\ outputPath \in {o.path : o \in {x \in getOutputPath(f.flag, f.tool, f.defaultTool,
                                                               envVars) : x.ok}}
    /\ servers = EmptyMap /\ mcpServers = EmptyMap /\ failed = FALSE /\ failure = ""
    /\ tokenRequests = << >> /\ invoked = ""
    /\ IdleExpand /\ IdleLoad /\ IdleTranslate /\ IdleStatus /\ IdleAuth

Between == {"shell", "done", "checked"}

\* set is invoked with the same flags, on the document as it is now.
SetAgain ==
    /\ pc \in Between
    /\ config' \in RunDocuments
    /\ \E out \in getOutputPath(configFile, toolShortcut, cliConfigTool, envVars) :
          /\ out.ok /\ out.path = outputPath
          /\ pc' = "validate"
          /\ failure' = out.err
    /\ servers' = filterServers(config', profile, FALSE)
    /\ invoked' = "set"
    /\ mcpServers' = EmptyMap /\ tokenRequests' = << >> /\ failed' = FALSE
    /\ fileBefore' = targetFile
    /\ toolFiles' = << >> /\ toolConfigs' = << >> /\ statuses' = << >>
    /\ UNCHANGED <<envVars, profile, all, filtered, configFile, toolShortcut, cliConfigTool,
                   outputPath, targetFile, varsExpand, varsLoad, varsTranslate, varsAuth>>

\* clear is invoked with the same flags.
ClearAgain ==
    /\ pc \in Between
    /\ \E out \in getOutputPath(configFile, toolShortcut, cliConfigTool, envVars) :
          /\ out.ok /\ out.path = outputPath
          /\ pc' = "write"
          /\ failure' = out.err
    /\ invoked' = "clear"
    /\ servers' = EmptyMap /\ mcpServers' = EmptyMap /\ tokenRequests' = << >>
    /\ failed' = FALSE
    /\ fileBefore' = targetFile
    /\ toolFiles' = << >> /\ toolConfigs' = << >> /\ statuses' = << >>
    /\ UNCHANGED <<envVars, varsFilter, configFile, toolShortcut, cliConfigTool,
                   outputPath, targetFile, varsExpand, varsLoad, varsTranslate, varsAuth>>

\* The status of every service of the document in the tool whose file is
\* the target: getToolConfigs, then getServerStatus service by service.
StatusCheck ==
    /\ pc = "done"
    /\ configFile = EmptyStr /\ toolShortcut # EmptyStr
    /\ toolFiles' = [tool \in {toolShortcut} |-> targetFile]
    /\ toolConfigs' = getToolConfigs(toolFiles')
    /\ statuses' \in [DOMAIN config ->
                         UNION {{m[toolShortcut] :
                                    m \in getServerStatus(n, config[n], toolConfigs', envVars,
                                                          containerTool)} :
                                   n \in DOMAIN config}]
    /\ \A n \in DOMAIN config :
          statuses'[n] \in {m[toolShortcut] :
                               m \in getServerStatus(n, config[n], toolConfigs', envVars,
                                                     containerTool)}
    /\ pc' = "checked"
    /\ UNCHANGED <<envVars, varsFilter, varsSet, varsExpand, varsLoad, varsTranslate, varsAuth>>

NextRuns ==
    \/ SetAgain \/ ClearAgain
    \/ ValidateAuthPasses \/ ToolCheckPasses
    \/ ConvertService \/ ConvertDone
    \/ WriteOpen \/ WriteData
    \/ StatusCheck

SpecRuns == InitRuns /\ [][NextRuns]_vars

====
